---- MODULE Spec2Model ----
(***************************************************************************)
(* A model of the attachments library (src/src/attachments): the member-   *)
(* name sanitizer, the archive exploder (as one function, and call by call *)
(* with its stack), the directory walker, the unpack                       *)
(* dispatcher with its prefix-handler registry, the HTTP download loop     *)
(* with its size guard, the processor registry, the configuration store    *)
(* and the orchestrator att with its local/remote fallback policy.         *)
(*                                                                         *)
(* Python strings are modelled as sequences of one-character strings, so   *)
(* that prefix, suffix, split and join are computed on characters as the   *)
(* code computes them.  Python dicts are modelled as functions whose       *)
(* DOMAIN is the set of keys (insertion-ordered dicts, where the order is  *)
(* read by the code, as sequences of [k, v] records).                      *)
(***************************************************************************)
EXTENDS Integers, Sequences, FiniteSets, TLC

VARIABLES
    sanName,      \* the raw name handed to _sanitize_member_name
    sanOut,       \* what it returned (NotCalled before the call)
    exData,       \* the bytes of the file or blob that is unpacked
    exCall,       \* the unpack/explode call made on it: [op, name, ...]
    exRes,        \* what the call returned or raised
    extra_unpack_handlers,  \* the global prefix -> handler registry
    regLog,       \* history: the registrations made, in call order
    upCall,       \* the unpack call made: [input, extra_handlers, world]
    upRes,        \* what it returned or raised, with its trace
    processors,   \* the global processor registry: key -> function
    default_processors,  \* _default_processors: the snapshot, or unset
    procOp,       \* history: the registry operation called last
    procPrev,     \* history: processors as that operation found it
    config,       \* _config: the process-wide configuration store
    environ,      \* os.environ: the ATTACHMENTS_* variables that are set
    attCall,      \* the att call made: its arguments and what it unpacked
    attPairs,     \* pairs: the (name, bytes) entries att loops over
    attOut,       \* out: the artifacts appended so far
    attLog,       \* history: what _process_single did for each file
    attRes,       \* what att returned or raised
    attPc,        \* where att is: "idle", "files" (in the loop) or "done"
    MAX_HTTP_DOWNLOAD_BYTES,  \* the download limit, as read at import
    dlCall,       \* the download made: [url, cd_filename, body]
    resp,         \* the part of the response body that is not read yet
    total,        \* total: the running byte count of the download loop
    buf,          \* buf: the bytes written to the buffer so far
    dlPc,         \* where the download is: "idle", "reading" or "done"
    dlRes,        \* what unpack(url) returned or raised
    singleCall,   \* the _process_single call made: its arguments, and what
                  \* the local libraries and the service do for it
    singleRes,    \* what it returned or raised, with the calls it made
    stepIn,       \* the arguments of the explode call that is followed
    stack,        \* its call stack: one frame per _explode_archive_bytes
    stepRes       \* what the outermost call returned or raised

sanVars == <<sanName, sanOut>>
exVars == <<exData, exCall, exRes>>
upVars == <<extra_unpack_handlers, regLog, upCall, upRes>>
procVars == <<processors, default_processors, procOp, procPrev>>
attVars == <<config, environ, attCall, attPairs, attOut, attLog, attRes,
             attPc>>
singleVars == <<singleCall, singleRes>>
dlVars == <<MAX_HTTP_DOWNLOAD_BYTES, dlCall, resp, total, buf, dlPc, dlRes>>
stepVars == <<stepIn, stack, stepRes>>
vars == <<sanName, sanOut, exData, exCall, exRes,
          extra_unpack_handlers, regLog, upCall, upRes,
          processors, default_processors, procOp, procPrev,
          config, environ, attCall, attPairs, attOut, attLog, attRes, attPc,
          MAX_HTTP_DOWNLOAD_BYTES, dlCall, resp, total, buf, dlPc, dlRes,
          singleCall, singleRes, stepIn, stack, stepRes>>

NotCalled == [called |-> FALSE]

----------------------------------------------------------------------------
(* Strings as sequences of characters.                                      *)

StartsWith(s, prefix) ==
    /\ Len(prefix) <= Len(s)
    /\ SubSeq(s, 1, Len(prefix)) = prefix

EndsWith(s, suffix) ==
    /\ Len(suffix) <= Len(s)
    /\ SubSeq(s, Len(s) - Len(suffix) + 1, Len(s)) = suffix

\* str.replace(old, new) for a one-character old
ReplaceChar(s, old, new) ==
    [i \in 1..Len(s) |-> IF s[i] = old THEN new ELSE s[i]]

\* str.split(sep) for a one-character sep: always at least one segment
RECURSIVE SplitFrom(_, _, _, _)
SplitFrom(s, sep, i, cur) ==
    IF i > Len(s) THEN <<cur>>
    ELSE IF s[i] = sep THEN <<cur>> \o SplitFrom(s, sep, i + 1, <<>>)
    ELSE SplitFrom(s, sep, i + 1, Append(cur, s[i]))

Split(s, sep) == SplitFrom(s, sep, 1, <<>>)

\* sep.join(parts)
RECURSIVE Join(_, _)
Join(parts, sep) ==
    IF parts = <<>> THEN <<>>
    ELSE IF Len(parts) = 1 THEN parts[1]
    ELSE parts[1] \o sep \o Join(Tail(parts), sep)

\* the while loop of _sanitize_member_name: drop every leading "/"
RECURSIVE StripLeadingSlashes(_)
StripLeadingSlashes(s) ==
    IF s # <<>> /\ s[1] = "/" THEN StripLeadingSlashes(Tail(s)) ELSE s

DroppedSegments == {<<>>, <<".">>, <<".", ".">>}

\* a plausible slip: ".." is not in the tuple of dropped segments
SanitizeKeepsDotDot(name) ==
    LET n1 == ReplaceChar(name, "\\", "/")
        n2 == StripLeadingSlashes(n1)
        parts == SelectSeq(Split(n2, "/"), LAMBDA p : p \notin {<<>>, <<".">>})
    IN  Join(parts, <<"/">>)

SanitizeMemberName(name) ==
    LET n1 == ReplaceChar(name, "\\", "/")
        n2 == StripLeadingSlashes(n1)
        parts == SelectSeq(Split(n2, "/"), LAMBDA p : p \notin DroppedSegments)
    IN  Join(parts, <<"/">>)

----------------------------------------------------------------------------
(* Byte strings.  The code reads of a file's bytes only whether they carry *)
(* the ZIP signature, whether they open as a TAR stream, which members an  *)
(* archive lists and what each member holds; a blob is modelled by exactly *)
(* that: kind "raw" (neither ZIP nor TAR; id tells two contents apart),    *)
(* "zip", "tar" (members in container order) and "badzip" (the PK          *)
(* signature followed by bytes zipfile cannot parse).                      *)

Raw(n) == [kind |-> "raw", id |-> n, members |-> <<>>]
BadZip == [kind |-> "badzip", id |-> 0, members |-> <<>>]
Archive(k, ms) == [kind |-> k, id |-> 0, members |-> ms]
Member(n, t, d) == [name |-> n, type |-> t, data |-> d]

RawArchiveSuffixes ==
    { <<".", "z", "i", "p">>,
      <<".", "t", "a", "r">>,
      <<".", "t", "g", "z">>,
      <<".", "t", "a", "r", ".", "g", "z">>,
      <<".", "t", "b", "z", "2">>,
      <<".", "t", "a", "r", ".", "b", "z", "2">>,
      <<".", "t", "x", "z">>,
      <<".", "t", "a", "r", ".", "x", "z">> }

UpperLetters ==
    <<"A", "B", "C", "D", "E", "F", "G", "H", "I", "J", "K", "L", "M",
      "N", "O", "P", "Q", "R", "S", "T", "U", "V", "W", "X", "Y", "Z">>
LowerLetters ==
    <<"a", "b", "c", "d", "e", "f", "g", "h", "i", "j", "k", "l", "m",
      "n", "o", "p", "q", "r", "s", "t", "u", "v", "w", "x", "y", "z">>

\* str.lower(), one character
LowerChar(c) ==
    IF \E i \in 1..26 : UpperLetters[i] = c
    THEN LowerLetters[CHOOSE i \in 1..26 : UpperLetters[i] = c]
    ELSE c

Lower(s) == [i \in 1..Len(s) |-> LowerChar(s[i])]

\* a plausible slip: the suffix is compared without lower-casing the name
IsRawArchiveNameExact(name) ==
    \E suf \in RawArchiveSuffixes : EndsWith(name, suf)

IsRawArchiveName(name) ==
    \E suf \in RawArchiveSuffixes : EndsWith(Lower(name), suf)

\* a plausible slip: the bytes count as a ZIP only when zipfile parses them
IsZipBytesThatParse(data) == data.kind = "zip"

IsZipBytes(data) == data.kind \in {"zip", "badzip"}

IsTarBytes(data) == data.kind = "tar"

\* the outcome of a call: a returned list, or a raised exception
\* (error: the exception's type; detail: the text its message quotes)
Returned(out) ==
    [called |-> TRUE, raised |-> FALSE, error |-> "", detail |-> <<>>,
     out |-> out]
RaisesWith(err, detail) ==
    [called |-> TRUE, raised |-> TRUE, error |-> err, detail |-> detail,
     out |-> <<>>]
Raises(err) == RaisesWith(err, <<>>)

Entry(n, d) == [name |-> n, data |-> d]

\* f"{container_name}/{inner_name}" if container_name else inner_name
VirtualName(container_name, inner_name) ==
    IF container_name # <<>> THEN container_name \o <<"/">> \o inner_name
    ELSE inner_name

\* zi.is_dir() for a ZIP member, not ti.isreg() for a TAR member
MemberSkipped(kind, m) ==
    IF kind = "zip" THEN m.name[Len(m.name)] = "/" ELSE m.type # "reg"

\* a plausible slip: the member name is used as the archive gives it
VirtualNameOfRawMember(container_name, m) ==
    VirtualName(container_name, m.name)

MemberVirtualName(container_name, m) ==
    VirtualName(container_name, SanitizeMemberName(m.name))

RECURSIVE ExplodeArchiveBytes(_, _)
RECURSIVE ExplodeMembers(_, _, _, _)

\* the for loop over zf.infolist() / tf.getmembers(), from member i on
ExplodeMembers(container_name, data, i, out) ==
    IF i > Len(data.members) THEN Returned(out)
    ELSE
      LET m == data.members[i]
          inner_name == SanitizeMemberName(m.name)
          inner == m.data
          virtual_name == MemberVirtualName(container_name, m)
      IN  IF data.kind = "zip" /\ m.name = <<>> THEN Raises("IndexError")
          ELSE IF MemberSkipped(data.kind, m)
          THEN ExplodeMembers(container_name, data, i + 1, out)
          ELSE IF IsRawArchiveName(inner_name)
                  /\ (IsZipBytes(inner) \/ IsTarBytes(inner))
          THEN LET sub == ExplodeArchiveBytes(virtual_name, inner)
               IN  IF sub.raised THEN sub
                   ELSE ExplodeMembers(container_name, data, i + 1,
                                       out \o sub.out)
          ELSE ExplodeMembers(container_name, data, i + 1,
                              Append(out, Entry(virtual_name, inner)))

ExplodeArchiveBytes(container_name, data) ==
    IF IsZipBytes(data)
    THEN IF data.kind = "badzip" THEN Raises("BadZipFile")
         ELSE ExplodeMembers(container_name, data, 1, <<>>)
    ELSE IF IsTarBytes(data)
    THEN ExplodeMembers(container_name, data, 1, <<>>)
    ELSE Returned(<<Entry(IF container_name # <<>> THEN container_name
                          ELSE <<"b", "l", "o", "b">>, data)>>)

----------------------------------------------------------------------------
(* The directory walker.  A directory is what os.walk lists of it: its     *)
(* files [name, data, readable] and its subdirectories [name, tree], each  *)
(* in listing order.                                                       *)

Dir(files, dirs) == [files |-> files, dirs |-> dirs]
File(n, d, r) == [name |-> n, data |-> d, readable |-> r]
SubDir(n, tree) == [name |-> n, tree |-> tree]

\* a plausible slip: only the version-control directories are pruned
PrunedVcsDirNames ==
    { <<".", "g", "i", "t">>, <<".", "h", "g">>, <<".", "s", "v", "n">> }

PrunedDirNames ==
    { <<".", "g", "i", "t">>,
      <<".", "h", "g">>,
      <<".", "s", "v", "n">>,
      <<"_", "_", "p", "y", "c", "a", "c", "h", "e", "_", "_">> }

\* os.path.join(rel_dir, fn) if rel_dir else fn
RelJoin(rel_dir, fn) ==
    IF rel_dir # <<>> THEN rel_dir \o <<"/">> \o fn ELSE fn

RECURSIVE WalkTree(_, _, _)
RECURSIVE WalkFiles(_, _, _, _)
RECURSIVE WalkDirs(_, _, _, _)

\* the for loop over filenames, from file i on
WalkFiles(tree, rel_dir, i, out) ==
    IF i > Len(tree.files) THEN Returned(out)
    ELSE
      LET f == tree.files[i]
          rel == RelJoin(rel_dir, f.name)
      IN  IF ~f.readable THEN WalkFiles(tree, rel_dir, i + 1, out)
          ELSE IF IsRawArchiveName(rel)
          THEN LET sub == ExplodeArchiveBytes(rel, f.data)
               IN  IF sub.raised THEN sub
                   ELSE WalkFiles(tree, rel_dir, i + 1, out \o sub.out)
          ELSE WalkFiles(tree, rel_dir, i + 1, Append(out, Entry(rel, f.data)))

\* os.walk's descent into the directories left in dirnames, from i on
WalkDirs(tree, rel_dir, i, out) ==
    IF i > Len(tree.dirs) THEN Returned(out)
    ELSE
      LET d == tree.dirs[i]
      IN  IF d.name \in PrunedDirNames THEN WalkDirs(tree, rel_dir, i + 1, out)
          ELSE LET sub == WalkTree(d.tree, RelJoin(rel_dir, d.name), out)
               IN  IF sub.raised THEN sub
                   ELSE WalkDirs(tree, rel_dir, i + 1, sub.out)

\* one (dirpath, dirnames, filenames) step of os.walk and what follows it
WalkTree(tree, rel_dir, out) ==
    LET here == WalkFiles(tree, rel_dir, 1, out)
    IN  IF here.raised THEN here ELSE WalkDirs(tree, rel_dir, 1, here.out)

WalkDirectory(tree) == WalkTree(tree, <<>>, <<>>)

----------------------------------------------------------------------------
(* The unpack dispatcher.  What lies outside the program is the world:     *)
(*   fs    the filesystem: path -> [kind, name, data, readable, tree];     *)
(*         a path outside DOMAIN fs does not exist;                        *)
(*   git   what "git clone" does: [fails, tree];                           *)
(*   http  what the server answers: [fails, cd_filename, data]             *)
(*         (cd_filename: the Content-Disposition file name, <<>> if none). *)
(* A prefix handler is a record [id, raises]; calling it returns one entry *)
(* named after the handler, or raises.  Every call that leaves the         *)
(* dispatcher is logged in the result's trace, in call order.              *)

Event(ev, who, arg) == [ev |-> ev, who |-> who, arg |-> arg]

Traced(res, trace) ==
    [called |-> TRUE, raised |-> res.raised, error |-> res.error,
     detail |-> res.detail, out |-> res.out, trace |-> trace]

\* d[k] = v on an insertion-ordered dict: a present key keeps its place
DictSet(d, k, v) ==
    IF \E i \in 1..Len(d) : d[i].k = k
    THEN [i \in 1..Len(d) |-> IF d[i].k = k THEN [k |-> k, v |-> v] ELSE d[i]]
    ELSE Append(d, [k |-> k, v |-> v])

\* d.update(e)
RECURSIVE DictUpdate(_, _)
DictUpdate(d, e) ==
    IF e = <<>> THEN d
    ELSE DictUpdate(DictSet(d, e[1].k, e[1].v), Tail(e))

\* a plausible slip: handlers = extra_unpack_handlers, without the copy, so
\* that handlers.update writes the call-time overrides into the global
RegistryAliased(registry, extra_handlers) ==
    DictUpdate(registry, extra_handlers)

\* the global registry when unpack returns: handlers is a new dict
\* (dict(extra_unpack_handlers)), handlers.update writes to it, and nothing
\* else of unpack assigns to the global
RegistryAfterUnpack(registry, extra_handlers) ==
    registry

\* a plausible slip: the call-time overrides are looked up first
MergeOverridesFirst(registry, extra_handlers) ==
    DictUpdate(extra_handlers, registry)

\* handlers = dict(extra_unpack_handlers); handlers.update(extra_handlers)
MergedHandlers(registry, extra_handlers) ==
    DictUpdate(registry, extra_handlers)

HandlerReturn(h, input) ==
    IF h.raises THEN Raises("HandlerError")
    ELSE Returned(<<Entry(<<h.id>>, Raw(1))>>)

GithubScheme == <<"g", "i", "t", "h", "u", "b", ":", "/", "/">>
GithubHttps ==
    <<"h", "t", "t", "p", "s", ":", "/", "/",
      "g", "i", "t", "h", "u", "b", ".", "c", "o", "m", "/">>
HttpScheme == <<"h", "t", "t", "p", ":", "/", "/">>
HttpsScheme == <<"h", "t", "t", "p", "s", ":", "/", "/">>

\* the index of the first character of s that is in stops, Len(s)+1 if none
FirstOf(s, stops) ==
    LET hits == {i \in 1..Len(s) : s[i] \in stops}
    IN  IF hits = {} THEN Len(s) + 1
        ELSE CHOOSE i \in hits : \A j \in hits : i <= j

\* urlparse(url).path of an http(s) URL: from the first "/" after the host
\* up to the query or the fragment
UrlPath(url) ==
    LET afterScheme == IF StartsWith(url, HttpsScheme)
                       THEN SubSeq(url, Len(HttpsScheme) + 1, Len(url))
                       ELSE SubSeq(url, Len(HttpScheme) + 1, Len(url))
        fromHost == SubSeq(afterScheme, 1,
                           FirstOf(afterScheme, {"?", "#"}) - 1)
    IN  SubSeq(fromHost, FirstOf(fromHost, {"/"}), Len(fromHost))

NonEmptyParts(path) == SelectSeq(Split(path, "/"), LAMBDA q : q # <<>>)

\* a plausible slip: a deeper path is taken for a repository as well
IsGithubUrlWithOwnerAndRepo(url) ==
    /\ StartsWith(url, GithubHttps)
    /\ Len(NonEmptyParts(UrlPath(url))) >= 2

IsGithubRepoRootUrl(url) ==
    /\ StartsWith(url, GithubHttps)
    /\ Len(NonEmptyParts(UrlPath(url))) = 2

AlnumChars ==
    {"a", "b", "c", "d", "e", "f", "g", "h", "i", "j", "k", "l", "m",
     "n", "o", "p", "q", "r", "s", "t", "u", "v", "w", "x", "y", "z",
     "A", "B", "C", "D", "E", "F", "G", "H", "I", "J", "K", "L", "M",
     "N", "O", "P", "Q", "R", "S", "T", "U", "V", "W", "X", "Y", "Z",
     "0", "1", "2", "3", "4", "5", "6", "7", "8", "9"}

OwnerRepoChars == AlnumChars \cup {"-", "_", "."}

\* _GITHUB_OWNER_REPO_RE: the optional groups [a-zA-Z0-9]? and (\.git)?
\* match nothing the starred class does not, so a part matches when it
\* starts with an alphanumeric and goes on in the class
MatchesOwnerRepoPart(part) ==
    /\ part # <<>>
    /\ part[1] \in AlnumChars
    /\ \A i \in 2..Len(part) : part[i] \in OwnerRepoChars

MatchesOwnerRepoRe(owner_repo) ==
    LET parts == Split(owner_repo, "/")
    IN  /\ Len(parts) = 2
        /\ MatchesOwnerRepoPart(parts[1])
        /\ MatchesOwnerRepoPart(parts[2])

Contains(s, sub) ==
    \E i \in 1..(Len(s) - Len(sub) + 1) : SubSeq(s, i, i + Len(sub) - 1) = sub

\* (the one-character string "BACKTICK" stands for the backquote)
DangerousPatterns ==
    { <<"-", "-">>, <<".", ".">>, <<";">>, <<"|">>, <<"&">>, <<"$">>,
      <<"BACKTICK">>, <<"\n">>, <<"\r">> }

\* TRUE when _validate_github_owner_repo returns, FALSE when it raises
ValidGithubOwnerRepo(owner_repo) ==
    /\ MatchesOwnerRepoRe(owner_repo)
    /\ \A pat \in DangerousPatterns : ~Contains(owner_repo, pat)

\* str.strip("/")
RECURSIVE StripTrailingSlashes(_)
StripTrailingSlashes(s) ==
    IF s # <<>> /\ s[Len(s)] = "/"
    THEN StripTrailingSlashes(SubSeq(s, 1, Len(s) - 1))
    ELSE s

StripSlashes(s) == StripTrailingSlashes(StripLeadingSlashes(s))

\* parse(spec) of _clone_github_to_temp: "ok" or the error it raises
GithubParse(spec) ==
    IF StartsWith(spec, GithubScheme)
    THEN LET rest == SubSeq(spec, Len(GithubScheme) + 1, Len(spec))
             repo_path == SubSeq(rest, 1, FirstOf(rest, {"?"}) - 1)
         IN  IF ValidGithubOwnerRepo(StripSlashes(repo_path)) THEN "ok"
             ELSE "ValueError"
    ELSE IF StartsWith(spec, GithubHttps)
    THEN LET parts == NonEmptyParts(UrlPath(spec))
         IN  IF Len(parts) # 2 THEN "ValueError"
             ELSE IF ValidGithubOwnerRepo(parts[1] \o <<"/">> \o parts[2])
             THEN "ok"
             ELSE "ValueError"
    ELSE "ValueError"

\* _clone_github_to_temp: [raised, error, trace]; on success the clone is
\* world.git.tree
CloneGithubToTemp(spec, world) ==
    IF GithubParse(spec) # "ok"
    THEN [raised |-> TRUE, error |-> GithubParse(spec), trace |-> <<>>]
    ELSE IF world.git.fails
    THEN [raised |-> TRUE, error |-> "RuntimeError",
          trace |-> <<Event("mkdtemp", "", <<>>), Event("git", "", spec)>>]
    ELSE [raised |-> FALSE, error |-> "",
          trace |-> <<Event("mkdtemp", "", <<>>), Event("git", "", spec)>>]

Download == <<"d", "o", "w", "n", "l", "o", "a", "d">>

OrElse(s, fallback) == IF s # <<>> THEN s ELSE fallback

\* 256 * 1024 * 1024: the limit when ATT_MAX_DOWNLOAD_BYTES is not set
DefaultMaxDownloadBytes == 268435456

\* MAX_HTTP_DOWNLOAD_BYTES = int(os.environ.get("ATT_MAX_DOWNLOAD_BYTES", ...))
MaxDownloadBytesAtImport(env_value) ==
    IF env_value.set THEN env_value.value ELSE DefaultMaxDownloadBytes

\* downloaded bytes as a blob: b"PK..." carries the ZIP signature, and no
\* body this short is an archive zipfile or tarfile can read
Bytes(s) ==
    [kind |-> IF Len(s) >= 2 /\ s[1] = "P" /\ s[2] = "K" THEN "badzip"
              ELSE "raw",
     id |-> s, members |-> <<>>]

\* a plausible slip: the count is tested before the chunk is added to it
LimitExceededBeforeAdding(count, chunk, limit) == count > limit

\* total += len(chunk); if total > MAX_HTTP_DOWNLOAD_BYTES
LimitExceeded(count, chunk, limit) == count + Len(chunk) > limit

\* the file name _download_http_or_https settles on
DownloadName(url, world) ==
    LET segs == Split(UrlPath(url), "/")
        fromUrl == OrElse(segs[Len(segs)], Download)
        filename == OrElse(world.http.cd_filename, fromUrl)
    IN  OrElse(SanitizeMemberName(filename), Download)

\* Path(input).name: the last component, trailing slashes dropped
PathName(input) ==
    LET parts == NonEmptyParts(input)
    IN  IF parts = <<>> THEN <<>> ELSE parts[Len(parts)]

Exists(input, world) == input \in DOMAIN world.fs

\* a plausible slip: any http(s) URL is taken before the GitHub root test
ResolverHttpFirst(input, world) ==
    IF StartsWith(input, HttpScheme) \/ StartsWith(input, HttpsScheme)
    THEN "http"
    ELSE IF StartsWith(input, GithubScheme) \/ IsGithubRepoRootUrl(input)
    THEN "github"
    ELSE IF Exists(input, world) /\ world.fs[input].kind = "dir" THEN "dir"
    ELSE IF Exists(input, world) /\ world.fs[input].kind = "file" THEN "file"
    ELSE "none"

\* the conditions of unpack's if chain, in the order of the code
Resolver(input, world) ==
    IF StartsWith(input, GithubScheme) \/ IsGithubRepoRootUrl(input)
    THEN "github"
    ELSE IF StartsWith(input, HttpScheme) \/ StartsWith(input, HttpsScheme)
    THEN "http"
    ELSE IF Exists(input, world) /\ world.fs[input].kind = "dir" THEN "dir"
    ELSE IF Exists(input, world) /\ world.fs[input].kind = "file" THEN "file"
    ELSE "none"

\* the built-in resolvers of unpack: the body of the branch taken
UnpackBuiltin(input, world) ==
    LET r == Resolver(input, world)
    IN
    IF r = "github"
    THEN LET c == CloneGithubToTemp(input, world)
             tr == <<Event("resolver", "github", input)>> \o c.trace
         IN  IF c.raised THEN Traced(RaisesWith(c.error, input), tr)
             ELSE Traced(WalkDirectory(world.git.tree),
                         Append(tr, Event("walk", "", input)))
    ELSE IF r = "http"
    THEN LET tr == <<Event("resolver", "http", input),
                     Event("urlopen", "", input)>>
             name == DownloadName(input, world)
         IN  IF world.http.fails THEN Traced(RaisesWith("URLError", input), tr)
             ELSE IF IsRawArchiveName(name)
             THEN Traced(ExplodeArchiveBytes(name, world.http.data), tr)
             ELSE Traced(Returned(<<Entry(name, world.http.data)>>), tr)
    ELSE IF r = "dir"
    THEN Traced(WalkDirectory(world.fs[input].tree),
                <<Event("stat", "", input), Event("resolver", "dir", input),
                  Event("walk", "", input)>>)
    ELSE IF r = "file"
    THEN LET tr == <<Event("stat", "", input),
                     Event("resolver", "file", input),
                     Event("open", "", input)>>
             f == world.fs[input]
         IN  IF ~f.readable THEN Traced(RaisesWith("OSError", input), tr)
             ELSE IF IsRawArchiveName(PathName(input))
             THEN Traced(ExplodeArchiveBytes(PathName(input), f.data), tr)
             ELSE Traced(Returned(<<Entry(PathName(input), f.data)>>), tr)
    ELSE Traced(RaisesWith("ValueError", input), <<Event("stat", "", input)>>)

\* the first handler of the merged table whose prefix starts the input
FirstMatch(handlers, input) ==
    LET hits == {i \in 1..Len(handlers) : StartsWith(input, handlers[i].k)}
    IN  IF hits = {} THEN 0
        ELSE CHOOSE i \in hits : \A j \in hits : i <= j

Unpack(input, registry, extra_handlers, world) ==
    LET handlers == MergedHandlers(registry, extra_handlers)
        i == FirstMatch(handlers, input)
    IN  IF i # 0
        THEN Traced(HandlerReturn(handlers[i].v, input),
                    <<Event("handler", handlers[i].v.id, input)>>)
        ELSE UnpackBuiltin(input, world)

----------------------------------------------------------------------------
(* The processor registry.  A processor is named by its function; the      *)
(* registry after import is what the registrations of text.py, xlsx.py and *)
(* pdf.py leave in it, in import order.                                    *)

\* str.strip() for blanks
RECURSIVE StripLeadingBlanks(_)
StripLeadingBlanks(s) ==
    IF s # <<>> /\ s[1] = " " THEN StripLeadingBlanks(Tail(s)) ELSE s

RECURSIVE StripTrailingBlanks(_)
StripTrailingBlanks(s) ==
    IF s # <<>> /\ s[Len(s)] = " "
    THEN StripTrailingBlanks(SubSeq(s, 1, Len(s) - 1))
    ELSE s

Strip(s) == StripTrailingBlanks(StripLeadingBlanks(s))

NormalizeKey(key) ==
    LET k == Strip(key)
    IN  IF StartsWith(k, <<"_", "_">>) THEN k
        ELSE IF ~StartsWith(k, <<".">>) THEN Lower(<<".">> \o k)
        ELSE Lower(k)

\* target[_normalize_key(key)] = func
RegistrySet(registry, key, func) ==
    LET nk == NormalizeKey(key)
    IN  (nk :> func) @@ registry

TextKey == <<"_", "_", "t", "e", "x", "t", "_", "_">>
XlsxKey == <<".", "x", "l", "s", "x">>
PdfKey == <<".", "p", "d", "f">>

\* the extensions text.py registers, in its order
TextExtensions ==
    << <<".", "t", "x", "t">>,
       <<".", "m", "d">>,
       <<".", "m", "a", "r", "k", "d", "o", "w", "n">>,
       <<".", "r", "s", "t">>,
       <<".", "c", "s", "v">>,
       <<".", "t", "s", "v">>,
       <<".", "j", "s", "o", "n">>,
       <<".", "y", "a", "m", "l">>,
       <<".", "y", "m", "l">>,
       <<".", "t", "o", "m", "l">>,
       <<".", "i", "n", "i">>,
       <<".", "c", "f", "g">>,
       <<".", "l", "o", "g">>,
       <<".", "p", "y">>,
       <<".", "j", "a", "v", "a">>,
       <<".", "j", "s">>,
       <<".", "t", "s">>,
       <<".", "c", "s", "s">>,
       <<".", "h", "t", "m", "l">>,
       <<".", "x", "m", "l">>,
       <<".", "t", "e", "x">> >>

RECURSIVE RegisterAll(_, _, _)
RegisterAll(registry, keys, func) ==
    IF keys = <<>> THEN registry
    ELSE RegisterAll(RegistrySet(registry, keys[1], func), Tail(keys), func)

\* processors after "from . import text, xlsx, pdf"
ImportedProcessors ==
    LET empty == [k \in {} |-> "none"]
        afterText == RegisterAll(RegistrySet(empty, TextKey, "text_processor"),
                                 TextExtensions, "text_processor")
        afterXlsx == RegistrySet(afterText, XlsxKey, "xlsx_processor")
    IN  RegistrySet(afterXlsx, PdfKey, "process_pdf")

Unset == [set |-> FALSE]
SetTo(v) == [set |-> TRUE, value |-> v]

\* _snapshot_defaults(): the new value of _default_processors
SnapshotDefaults(registry, defaults) ==
    IF ~defaults.set THEN SetTo(registry) ELSE defaults

\* a plausible slip: processors.update(...) without processors.clear()
ResetWithoutClear(registry, defaults) ==
    IF defaults.set THEN defaults.value @@ registry ELSE registry

\* reset_processors(): the new value of processors
ResetRegistry(registry, defaults) ==
    IF defaults.set THEN defaults.value ELSE registry

----------------------------------------------------------------------------
(* The orchestrator (core.py) with the configuration store it reads.       *)
(* A dict with string keys is a function on its keys; None is Unset and a  *)
(* value v is SetTo(v) where the code tests "is None" or truthiness.  An   *)
(* artifact is the dict the code builds: text, images, audio and video are *)
(* sequences, flags is a dict whose text values are character sequences.   *)

EmptyDict == [k \in {} |-> <<>>]

\* d.setdefault(k, v): the dict afterwards
SetDefault(d, k, v) == IF k \in DOMAIN d THEN d ELSE (k :> v) @@ d

\* d[k] = v
DictPut(d, k, v) == (k :> v) @@ d

\* d.get(k, default)
DictGet(d, k, default) == IF k \in DOMAIN d THEN d[k] ELSE default

\* d.pop(k, None): the dict afterwards
DictPop(d, k) == [x \in DOMAIN d \ {k} |-> d[x]]

\* {**d, **e}
DictMerge(d, e) == e @@ d

\* the truth value of an optional string: None and "" are false
Truthy(v) == v.set /\ v.value # ""

\* _config as the module defines it (the two keys the orchestrator reads)
DefaultConfig == [api_key |-> Unset, prefer |-> SetTo("local")]

\* f"ATTACHMENTS_{key.upper()}"
EnvName(key) ==
    IF key = "api_key" THEN "ATTACHMENTS_API_KEY" ELSE "ATTACHMENTS_PREFER"

\* get_config(key, default): the environment first, then _config
GetConfig(key, default, env, cfg) ==
    IF EnvName(key) \in DOMAIN env THEN SetTo(env[EnvName(key)])
    ELSE IF key \in DOMAIN cfg THEN cfg[key]
    ELSE default

GetApiKey(override, env, cfg) ==
    IF override.set THEN override ELSE GetConfig("api_key", Unset, env, cfg)

GetPrefer(override, env, cfg) ==
    IF override.set THEN override
    ELSE GetConfig("prefer", SetTo("local"), env, cfg)

ErrorArtifact(source, error) ==
    [text |-> <<>>, images |-> <<>>, audio |-> <<>>, video |-> <<>>,
     flags |-> [source |-> source, error |-> error]]

EmptyArtifact(source, note) ==
    [text |-> <<>>, images |-> <<>>, audio |-> <<>>, video |-> <<>>,
     flags |-> [source |-> source, note |-> note]]

DepIndicators ==
    { <<"r", "e", "q", "u", "i", "r", "e", "s">>,
      <<"n", "o", "t", " ", "i", "n", "s", "t", "a", "l", "l", "e", "d">>,
      <<"u", "n", "a", "v", "a", "i", "l", "a", "b", "l", "e">>,
      <<"I", "m", "p", "o", "r", "t", "E", "r", "r", "o", "r">>,
      <<"M", "o", "d", "u", "l", "e", "N", "o", "t", "F", "o", "u", "n", "d",
        "E", "r", "r", "o", "r">>,
      <<"n", "o", " ", "m", "o", "d", "u", "l", "e">> }

HasMeaningfulError(artifact) ==
    LET flags == DictGet(artifact, "flags", EmptyDict)
        error == DictGet(flags, "error", <<>>)
    IN  \E ind \in DepIndicators : Contains(Lower(error), Lower(ind))

\* str.rfind, 1-based, 0 when absent
LastIndexOf(s, c) ==
    LET hits == {i \in 1..Len(s) : s[i] = c}
    IN  IF hits = {} THEN 0 ELSE CHOOSE i \in hits : \A j \in hits : j <= i

\* os.path.splitext(filename)[1]: from the last dot of the last path
\* component, unless only dots precede it there
SplitExt(filename) ==
    LET sep == LastIndexOf(filename, "/")
        dot == LastIndexOf(filename, ".")
    IN  IF dot > sep /\ \E i \in (sep + 1)..(dot - 1) : filename[i] # "."
        THEN SubSeq(filename, dot, Len(filename))
        ELSE <<>>

\* is_text_bytes: Raw(1) stands for printable bytes; every other blob
\* (Raw(2), and archives, whose headers hold NULs) fails the heuristic
IsTextBytes(data) == data.kind = "raw" /\ data.id = 1

\* a plausible slip: bytes that look like text go to the catch-all first
RouteProcessorTextFirst(filename, data, registry) ==
    LET ext == Lower(SplitExt(filename))
    IN  IF IsTextBytes(data) /\ TextKey \in DOMAIN registry
        THEN registry[TextKey]
        ELSE IF ext \in DOMAIN registry THEN registry[ext]
        ELSE "none"

\* _route_processor: the registered function, or "none" for None
RouteProcessor(filename, data, registry) ==
    LET ext == Lower(SplitExt(filename))
    IN  IF ext \in DOMAIN registry THEN registry[ext]
        ELSE IF IsTextBytes(data) /\ TextKey \in DOMAIN registry
        THEN registry[TextKey]
        ELSE "none"

\* guess_decode: utf-8 text for printable bytes, and the first codec that
\* accepts anything (latin-1) for the rest
GuessDecode(data) ==
    IF IsTextBytes(data)
    THEN [enc |-> <<"u", "t", "f", "-", "8">>, text |-> <<"h", "i">>]
    ELSE [enc |-> <<"l", "a", "t", "i", "n", "-", "1">>, text |-> <<"?">>]

XlsxRequires ==
    <<"x", "l", "s", "x", " ", "p", "r", "o", "c", "e", "s", "s", "o", "r",
      " ", "r", "e", "q", "u", "i", "r", "e", "s", " ", "p", "a", "n", "d",
      "a", "s", " ", "(", "w", "i", "t", "h", " ", "o", "p", "e", "n", "p",
      "y", "x", "l", ")", " ", "o", "r", " ", "o", "p", "e", "n", "p", "y",
      "x", "l">>

PdfUnavailable ==
    <<"t", "e", "x", "t", " ", "e", "x", "t", "r", "a", "c", "t", "i", "o",
      "n", " ", "v", "i", "a", " ", "p", "y", "p", "d", "f", "/", "P", "y",
      "P", "D", "F", "2", " ", "u", "n", "a", "v", "a", "i", "l", "a", "b",
      "l", "e", ":", " ", "N", "o", " ", "m", "o", "d", "u", "l", "e", " ",
      "n", "a", "m", "e", "d", " ", "'", "P", "y", "P", "D", "F", "2", "'">>

\* str(e) of a raised exception, abridged: its type, then the text it quotes
ExcText(res) == <<res.error>> \o <<":", " ">> \o res.detail

\* proc(data, filename=filename, **options) for the built-in processors and
\* for registered ones: f1 returns a partial artifact that names its own
\* source, f3 returns an artifact whose error names no missing dependency,
\* f2 raises.  deps: the optional libraries are installed and parse the
\* bytes
CallProcessor(func, data, filename, options, deps) ==
    IF func = "text_processor"
    THEN Returned([text |-> GuessDecode(data).text, images |-> <<>>,
                   audio |-> <<>>, video |-> <<>>,
                   flags |-> [encoding |-> GuessDecode(data).enc,
                              chars |-> Len(GuessDecode(data).text),
                              kind |-> <<"t", "e", "x", "t">>,
                              filename |-> filename]])
    ELSE IF func = "xlsx_processor"
    THEN IF deps
         THEN Returned([text |-> <<"a", ",", "b">>, images |-> <<>>,
                        audio |-> <<>>, video |-> <<>>,
                        flags |-> [kind |-> <<"t", "a", "b", "l", "e">>,
                                   engine |->
                                       <<"p", "a", "n", "d", "a", "s">>]])
         ELSE Returned([text |-> <<>>, images |-> <<>>,
                        audio |-> <<>>, video |-> <<>>,
                        flags |-> [error |-> XlsxRequires]])
    ELSE IF func = "process_pdf"
    THEN IF deps
         THEN Returned([text |-> <<"p">>, images |-> <<>>,
                        audio |-> <<>>, video |-> <<>>,
                        flags |-> [type |-> <<"p", "d", "f">>,
                                   text_backend |->
                                       <<"p", "y", "p", "d", "f">>,
                                   parsed_pages |-> 1]])
         ELSE Returned([text |-> <<>>, images |-> <<>>,
                        audio |-> <<>>, video |-> <<>>,
                        flags |-> [type |-> <<"p", "d", "f">>,
                                   note |-> PdfUnavailable,
                                   parsed_pages |-> 0]])
    ELSE IF func = "f1"
    THEN Returned([text |-> <<"f", "1">>,
                   flags |-> [source |-> <<"f", "1">>]])
    ELSE IF func = "f3"
    THEN Returned([text |-> <<>>,
                   flags |-> [error |-> <<"b", "a", "d", " ", "f", "i", "l",
                                          "e">>]])
    ELSE RaisesWith("RuntimeError", <<"f", "2">>)

\* what process_via_service does for one upload
\*   [kind |-> "ok", result, message]  the response's JSON dict
\*   [kind |-> "ServiceError", ...]    a timeout, a request error or a
\*                                     status >= 400, with its message
\*   [kind |-> "ImportError", ...]     httpx is not installed
\*   [kind |-> "ValueError", ...]      the response body is not JSON
RemoteOk(result) == [kind |-> "ok", result |-> result, message |-> <<>>]
RemoteFails(kind, message) ==
    [kind |-> kind, result |-> EmptyDict, message |-> message]

\* _process_via_service
ProcessViaService(filename, remote) ==
    IF remote.kind = "ok"
    THEN LET result == SetDefault(remote.result, "flags", EmptyDict)
         IN  Returned(DictPut(result, "flags",
                 DictPut(result["flags"], "via",
                     <<"s", "e", "r", "v", "i", "c", "e">>)))
    ELSE IF remote.kind = "ServiceError"
    THEN Returned(ErrorArtifact(filename,
             <<"s", "e", "r", "v", "i", "c", "e", " ", "e", "r", "r", "o",
               "r", ":", " ">> \o remote.message))
    ELSE RaisesWith(remote.kind, remote.message)

MsgNoKey ==
    <<"s", "e", "r", "v", "i", "c", "e", "-", "o", "n", "l", "y", " ", "m",
      "o", "d", "e", " ", "b", "u", "t", " ", "n", "o", " ", "A", "P", "I",
      " ", "k", "e", "y", " ", "c", "o", "n", "f", "i", "g", "u", "r", "e",
      "d">>
MsgNoLocalProcessor ==
    <<"n", "o", " ", "l", "o", "c", "a", "l", " ", "p", "r", "o", "c", "e",
      "s", "s", "o", "r", " ", "a", "v", "a", "i", "l", "a", "b", "l", "e">>
MsgNoProcessor ==
    <<"n", "o", " ", "p", "r", "o", "c", "e", "s", "s", "o", "r", " ", "a",
      "v", "a", "i", "l", "a", "b", "l", "e">>
MsgLocalFailed ==
    <<"l", "o", "c", "a", "l", " ", "p", "r", "o", "c", "e", "s", "s", "i",
      "n", "g", " ", "f", "a", "i", "l", "e", "d", ":", " ">>
MsgFailed ==
    <<"p", "r", "o", "c", "e", "s", "s", "i", "n", "g", " ", "f", "a", "i",
      "l", "e", "d", ":", " ">>
MsgServiceFailed ==
    <<"s", "e", "r", "v", "i", "c", "e", " ", "p", "r", "o", "c", "e", "s",
      "s", "i", "n", "g", " ", "f", "a", "i", "l", "e", "d", ":", " ">>
MsgProcessingFailed ==
    <<"p", "r", "o", "c", "e", "s", "s", "i", "n", "g", " ", "f", "a", "i",
      "l", "e", "d">>

\* a call wrapped in try/except Exception: the artifact returned either way
OrErrorArtifact(loc, filename, prefix) ==
    IF loc.raised
    THEN Returned(ErrorArtifact(filename, prefix \o ExcText(loc)))
    ELSE loc

\* The four strategies of _process_single.  key is the credential, proc
\* the routed processor ("none" for None), loc what calling it gives, rem
\* what _process_via_service gives; each returns the outcome with the
\* processor calls made, in call order.

\* a plausible slip: any error flag of the local artifact sends the file
\* to the service
LocalModeRetryOnAnyError(filename, key, proc, loc, rem) ==
    LET evL == Event("local", proc, filename)
        evR == Event("remote", "service", filename)
        tr == IF proc # "none" THEN <<evL>> ELSE <<>>
    IN  IF /\ proc # "none"
           /\ ~loc.raised
           /\ (DictGet(DictGet(loc.out, "flags", EmptyDict), "error", <<>>)
                   = <<>>
               \/ ~Truthy(key))
        THEN Traced(loc, tr)
        ELSE IF proc # "none" /\ loc.raised /\ ~Truthy(key)
        THEN Traced(OrErrorArtifact(loc, filename, MsgLocalFailed), tr)
        ELSE IF Truthy(key)
        THEN Traced(OrErrorArtifact(rem, filename, MsgServiceFailed),
                    Append(tr, evR))
        ELSE IF proc = "none"
        THEN Traced(Returned(EmptyArtifact(filename, MsgNoProcessor)), tr)
        ELSE Traced(Returned(ErrorArtifact(filename, MsgProcessingFailed)),
                    tr)

\* a plausible slip: the error flag of the service's answer is not tested
ServiceModeIgnoringErrorFlag(filename, key, proc, loc, rem) ==
    LET evL == Event("local", proc, filename)
        evR == Event("remote", "service", filename)
        tr == IF Truthy(key) THEN <<evR>> ELSE <<>>
    IN  IF Truthy(key) /\ ~rem.raised THEN Traced(rem, tr)
        ELSE IF proc = "none"
        THEN Traced(Returned(EmptyArtifact(filename, MsgNoProcessor)), tr)
        ELSE Traced(OrErrorArtifact(loc, filename, MsgFailed),
                    Append(tr, evL))

\* a plausible slip: without a local processor the file goes to the service
LocalOnlyWithRemoteFallback(filename, key, proc, loc, rem) ==
    IF proc = "none"
    THEN IF Truthy(key)
         THEN Traced(OrErrorArtifact(rem, filename, MsgServiceFailed),
                     <<Event("remote", "service", filename)>>)
         ELSE Traced(Returned(EmptyArtifact(filename, MsgNoLocalProcessor)),
                     <<>>)
    ELSE Traced(OrErrorArtifact(loc, filename, MsgLocalFailed),
                <<Event("local", proc, filename)>>)

\* a plausible slip: without a credential the local processor is used
ServiceOnlyWithLocalFallback(filename, key, proc, loc, rem) ==
    IF ~Truthy(key)
    THEN IF proc = "none"
         THEN Traced(Returned(ErrorArtifact(filename, MsgNoKey)), <<>>)
         ELSE Traced(OrErrorArtifact(loc, filename, MsgLocalFailed),
                     <<Event("local", proc, filename)>>)
    ELSE Traced(rem, <<Event("remote", "service", filename)>>)

\* a plausible slip: when the service fails too, the local processor is
\* tried once more
LocalModeRetryingLocal(filename, key, proc, loc, rem) ==
    LET evL == Event("local", proc, filename)
        evR == Event("remote", "service", filename)
        tr == IF proc # "none" THEN <<evL>> ELSE <<>>
    IN  IF /\ proc # "none"
           /\ ~loc.raised
           /\ (~HasMeaningfulError(loc.out) \/ ~Truthy(key))
        THEN Traced(loc, tr)
        ELSE IF proc # "none" /\ loc.raised /\ ~Truthy(key)
        THEN Traced(OrErrorArtifact(loc, filename, MsgLocalFailed), tr)
        ELSE IF Truthy(key) /\ (~rem.raised \/ proc = "none")
        THEN Traced(OrErrorArtifact(rem, filename, MsgServiceFailed),
                    Append(tr, evR))
        ELSE IF Truthy(key)
        THEN Traced(OrErrorArtifact(loc, filename, MsgLocalFailed),
                    tr \o <<evR, evL>>)
        ELSE IF proc = "none"
        THEN Traced(Returned(EmptyArtifact(filename, MsgNoProcessor)), tr)
        ELSE Traced(Returned(ErrorArtifact(filename, MsgProcessingFailed)),
                    tr)

\* a plausible slip: a local processor that raises without a credential
\* falls through instead of returning its error
LocalModeFallingThrough(filename, key, proc, loc, rem) ==
    LET evL == Event("local", proc, filename)
        evR == Event("remote", "service", filename)
        tr == IF proc # "none" THEN <<evL>> ELSE <<>>
    IN  IF /\ proc # "none"
           /\ ~loc.raised
           /\ (~HasMeaningfulError(loc.out) \/ ~Truthy(key))
        THEN Traced(loc, tr)
        ELSE IF Truthy(key)
        THEN Traced(OrErrorArtifact(rem, filename, MsgServiceFailed),
                    Append(tr, evR))
        ELSE IF proc = "none"
        THEN Traced(Returned(EmptyArtifact(filename, MsgNoProcessor)), tr)
        ELSE Traced(Returned(ErrorArtifact(filename, MsgProcessingFailed)),
                    tr)

\* mode "local", and every mode that is none of the other three
LocalMode(filename, key, proc, loc, rem) ==
    LET evL == Event("local", proc, filename)
        evR == Event("remote", "service", filename)
        tr == IF proc # "none" THEN <<evL>> ELSE <<>>
    IN  IF /\ proc # "none"
           /\ ~loc.raised
           /\ (~HasMeaningfulError(loc.out) \/ ~Truthy(key))
        THEN Traced(loc, tr)
        ELSE IF proc # "none" /\ loc.raised /\ ~Truthy(key)
        THEN Traced(OrErrorArtifact(loc, filename, MsgLocalFailed), tr)
        ELSE IF Truthy(key)
        THEN Traced(OrErrorArtifact(rem, filename, MsgServiceFailed),
                    Append(tr, evR))
        ELSE IF proc = "none"
        THEN Traced(Returned(EmptyArtifact(filename, MsgNoProcessor)), tr)
        ELSE Traced(Returned(ErrorArtifact(filename, MsgProcessingFailed)),
                    tr)

\* mode "service"
ServiceMode(filename, key, proc, loc, rem) ==
    LET evL == Event("local", proc, filename)
        evR == Event("remote", "service", filename)
        tr == IF Truthy(key) THEN <<evR>> ELSE <<>>
    IN  IF /\ Truthy(key)
           /\ ~rem.raised
           /\ DictGet(rem.out["flags"], "error", <<>>) = <<>>
        THEN Traced(rem, tr)
        ELSE IF proc = "none"
        THEN Traced(Returned(EmptyArtifact(filename, MsgNoProcessor)), tr)
        ELSE Traced(OrErrorArtifact(loc, filename, MsgFailed),
                    Append(tr, evL))

\* mode "local-only"
LocalOnlyMode(filename, key, proc, loc, rem) ==
    IF proc = "none"
    THEN Traced(Returned(EmptyArtifact(filename, MsgNoLocalProcessor)), <<>>)
    ELSE Traced(OrErrorArtifact(loc, filename, MsgLocalFailed),
                <<Event("local", proc, filename)>>)

\* mode "service-only"
ServiceOnlyMode(filename, key, proc, loc, rem) ==
    IF ~Truthy(key)
    THEN Traced(Returned(ErrorArtifact(filename, MsgNoKey)), <<>>)
    ELSE Traced(rem, <<Event("remote", "service", filename)>>)

\* _process_single: what it returns or raises, with the processor calls it
\* made, in call order
ProcessSingle(filename, data, api_key, prefer, options, registry, env, cfg, deps, remote) ==
    LET key == GetApiKey(api_key, env, cfg)
        mode == GetPrefer(prefer, env, cfg).value
        proc == RouteProcessor(filename, data, registry)
        loc == CallProcessor(proc, data, filename, options, deps)
        rem == ProcessViaService(filename, remote)
    IN
    IF mode = "service-only"
    THEN ServiceOnlyMode(filename, key, proc, loc, rem)
    ELSE IF mode = "local-only"
    THEN LocalOnlyMode(filename, key, proc, loc, rem)
    ELSE IF mode = "service"
    THEN ServiceMode(filename, key, proc, loc, rem)
    ELSE LocalMode(filename, key, proc, loc, rem)

\* _normalize_artifact
NormalizeArtifact(artifact, source) ==
    LET a1 == SetDefault(artifact, "text", <<>>)
        a2 == SetDefault(a1, "images", <<>>)
        a3 == SetDefault(a2, "audio", <<>>)
        a4 == SetDefault(a3, "video", <<>>)
        a5 == SetDefault(a4, "flags", EmptyDict)
    IN  DictPut(a5, "flags", SetDefault(a5["flags"], "source", source))

----------------------------------------------------------------------------
(* The inline option parser (dsl.py) and the source options of att.  An    *)
(* option value is [t |-> "str", s], [t |-> "bool", b], [t |-> "int", n]   *)
(* or [t |-> "range", lo, hi]; floats are not modelled (no input drawn     *)
(* below has one).                                                         *)

Digits == {"0", "1", "2", "3", "4", "5", "6", "7", "8", "9"}

DigitValue(c) ==
    CASE c = "0" -> 0 [] c = "1" -> 1 [] c = "2" -> 2 [] c = "3" -> 3
      [] c = "4" -> 4 [] c = "5" -> 5 [] c = "6" -> 6 [] c = "7" -> 7
      [] c = "8" -> 8 [] c = "9" -> 9

DigitChar(n) ==
    <<"0", "1", "2", "3", "4", "5", "6", "7", "8", "9">>[n + 1]

\* str.isdigit()
IsDigits(s) == s # <<>> /\ \A i \in 1..Len(s) : s[i] \in Digits

\* int(s) for a string of digits
RECURSIVE ParseNat(_)
ParseNat(s) ==
    IF s = <<>> THEN 0
    ELSE 10 * ParseNat(SubSeq(s, 1, Len(s) - 1)) + DigitValue(s[Len(s)])

\* str(n) for n >= 0
RECURSIVE NatToStr(_)
NatToStr(n) ==
    IF n < 10 THEN <<DigitChar(n)>>
    ELSE NatToStr(n \div 10) \o <<DigitChar(n % 10)>>

StrValue(s) == [t |-> "str", s |-> s]
BoolValue(b) == [t |-> "bool", b |-> b]
IntValue(n) == [t |-> "int", n |-> n]
RangeValue(lo, hi) == [t |-> "range", lo |-> lo, hi |-> hi]

TrueWords == {<<"t", "r", "u", "e">>, <<"y", "e", "s">>,
    <<"o", "n">>, <<"1">>}
FalseWords == {<<"f", "a", "l", "s", "e">>, <<"n", "o">>,
    <<"o", "f", "f">>, <<"0">>}

\* ^(\d+)\s*-\s*(\d+)$ : the position of the dash, 0 when no match
RangeDash(value) ==
    LET i == FirstOf(value, {"-"})
        left == SubSeq(value, 1, i - 1)
        right == SubSeq(value, i + 1, Len(value))
    IN  IF /\ i <= Len(value)
           /\ IsDigits(StripTrailingBlanks(left))
           /\ IsDigits(StripLeadingBlanks(right))
        THEN i
        ELSE 0

\* _parse_value
ParseValue(raw) ==
    LET value == Strip(raw)
        quoted(q) == StartsWith(value, <<q>>) /\ EndsWith(value, <<q>>)
        dash == RangeDash(value)
    IN  IF quoted("\"") \/ quoted("'")
        THEN StrValue(SubSeq(value, 2, Len(value) - 1))
        ELSE IF Lower(value) \in TrueWords THEN BoolValue(TRUE)
        ELSE IF Lower(value) \in FalseWords THEN BoolValue(FALSE)
        ELSE IF IsDigits(value) THEN IntValue(ParseNat(value))
        ELSE IF StartsWith(value, <<"-">>) /\ IsDigits(Tail(value))
        THEN IntValue(0 - ParseNat(Tail(value)))
        ELSE IF dash # 0
        THEN RangeValue(
                 ParseNat(StripTrailingBlanks(SubSeq(value, 1, dash - 1))),
                 ParseNat(StripLeadingBlanks(
                     SubSeq(value, dash + 1, Len(value)))))
        ELSE StrValue(value)

KeyPageStart == <<"p", "a", "g", "e", "_", "s", "t", "a", "r", "t">>
KeyPageEnd == <<"p", "a", "g", "e", "_", "e", "n", "d">>
KeyRef == <<"r", "e", "f">>

\* KEY_ALIASES: the keys that name a pair of processor options
RangeAliases == {<<"p", "a", "g", "e", "s">>, <<"p", "a", "g", "e">>}

\* KEY_ALIASES.get(key_lower, key_lower) for the single-option keys
Alias(key_lower) ==
    IF key_lower \in {<<"p", "a", "s", "s", "w", "o", "r",
                        "d">>,
        <<"p", "w">>} THEN
        <<"p", "a", "s", "s", "w", "o", "r", "d">>
    ELSE IF key_lower = <<"d", "p", "i">> THEN
        <<"i", "m", "a", "g", "e", "s", "_", "d", "p", "i">>
    ELSE IF key_lower \in {<<"i", "m", "a", "g", "e", "s">>,
        <<"r", "e", "n", "d", "e", "r">>}
    THEN <<"r", "e", "n", "d", "e", "r", "_", "i", "m", "a", "g", "e", "s">>
    ELSE IF key_lower \in {<<"r", "o", "w",
                             "s">>,
        <<"m", "a", "x", "_", "r", "o", "w", "s">>} THEN
        <<"m", "a", "x", "_", "r", "o", "w", "s">>
    ELSE IF key_lower \in {<<"b", "r", "a", "n", "c",
                             "h">>,
        <<"r", "e", "f">>,
        <<"t", "a", "g">>} THEN KeyRef
    ELSE IF key_lower = <<"s", "t", "a", "r", "t">> THEN KeyPageStart
    ELSE IF key_lower = <<"e", "n", "d">> THEN KeyPageEnd
    ELSE key_lower

\* _expand_option: the options the pair adds, as a dict
ExpandOption(key, value) ==
    LET key_lower == ReplaceChar(ReplaceChar(Lower(key), "-", "_"), " ", "_")
    IN  IF key_lower \in RangeAliases
        THEN IF value.t = "range"
             THEN (KeyPageStart :> IntValue(value.lo - 1))
                  @@ (KeyPageEnd :> IntValue(value.hi))
             ELSE IF value.t \in {"int", "bool"}
             THEN LET n == IF value.t = "int" THEN value.n
                           ELSE IF value.b THEN 1 ELSE 0
                  IN  (KeyPageStart :> IntValue(n - 1))
                      @@ (KeyPageEnd :> value)
             ELSE EmptyDict
        ELSE (Alias(key_lower) :> value)

\* _split_options: split at the commas outside quotes; quote is the open
\* quote character, <<>> outside quotes
RECURSIVE SplitOptionsFrom(_, _, _, _)
SplitOptionsFrom(s, quote, current, parts) ==
    IF s = <<>>
    THEN IF current # <<>> THEN Append(parts, current) ELSE parts
    ELSE LET char == s[1]
         IN  IF char \in {"\"", "'"} /\ quote = <<>>
             THEN SplitOptionsFrom(Tail(s), <<char>>,
                                   Append(current, char), parts)
             ELSE IF quote # <<>> /\ <<char>> = quote
             THEN SplitOptionsFrom(Tail(s), <<>>,
                                   Append(current, char), parts)
             ELSE IF char = "," /\ quote = <<>>
             THEN SplitOptionsFrom(Tail(s), quote, <<>>,
                                   Append(parts, current))
             ELSE SplitOptionsFrom(Tail(s), quote,
                                   Append(current, char), parts)

SplitOptions(options_str) == SplitOptionsFrom(options_str, <<>>, <<>>, <<>>)

\* the backward scan for the "[" that opens the options; 0 when none does
\* (the code's -1)
RECURSIVE OptionsStart(_, _, _)
OptionsStart(s, i, bracket_depth) ==
    IF i = 0 THEN 0
    ELSE IF s[i] = "]" THEN OptionsStart(s, i - 1, bracket_depth + 1)
    ELSE IF s[i] = "["
    THEN IF bracket_depth - 1 = 0 THEN i
         ELSE OptionsStart(s, i - 1, bracket_depth - 1)
    ELSE OptionsStart(s, i - 1, bracket_depth)

\* the loop over the parts: options.update(expanded) for each "key: value"
RECURSIVE ParseParts(_, _)
ParseParts(parts, options) ==
    IF parts = <<>> THEN options
    ELSE LET part == Strip(parts[1])
             colon == FirstOf(part, {":"})
         IN  IF part # <<>> /\ colon <= Len(part)
             THEN ParseParts(Tail(parts),
                      DictMerge(options,
                          ExpandOption(
                              Strip(SubSeq(part, 1, colon - 1)),
                              ParseValue(SubSeq(part, colon + 1,
                                                Len(part))))))
             ELSE ParseParts(Tail(parts), options)

\* parse_dsl: [path, options]
ParseDsl(raw) ==
    LET input == Strip(raw)
        options_start == OptionsStart(input, Len(input), 0)
        path == Strip(SubSeq(input, 1, options_start - 1))
        options_str ==
            Strip(SubSeq(input, options_start + 1, Len(input) - 1))
    IN  IF ~(\E i \in 1..Len(input) : input[i] = "[")
           \/ ~EndsWith(input, <<"]">>)
        THEN [path |-> input, options |-> EmptyDict]
        ELSE IF options_start = 0
        THEN [path |-> input, options |-> EmptyDict]
        ELSE IF options_str = <<>>
        THEN [path |-> path, options |-> EmptyDict]
        ELSE [path |-> path,
              options |-> ParseParts(SplitOptions(options_str), EmptyDict)]

\* input.count("/")
CountChar(s, c) == Cardinality({i \in 1..Len(s) : s[i] = c})

\* str(ref) and the truth value of ref
ValueStr(value) ==
    IF value.t = "str" THEN value.s
    ELSE IF value.t = "bool"
    THEN IF value.b THEN <<"T", "r", "u", "e">> ELSE
        <<"F", "a", "l", "s", "e">>
    ELSE IF value.t = "int"
    THEN IF value.n < 0 THEN <<"-">> \o NatToStr(0 - value.n)
         ELSE NatToStr(value.n)
    ELSE <<"(">> \o NatToStr(value.lo) \o <<",", " ">>
             \o NatToStr(value.hi) \o <<")">>

ValueTruthy(value) ==
    IF value.t = "str" THEN value.s # <<>>
    ELSE IF value.t = "bool" THEN value.b
    ELSE IF value.t = "int" THEN value.n # 0
    ELSE TRUE

\* _apply_source_options: [input, options] afterwards (ref is popped from
\* the caller's dict)
ApplySourceOptions(input, options) ==
    IF \/ StartsWith(input, GithubScheme)
       \/ StartsWith(input, GithubHttps) /\ CountChar(input, "/") <= 4
    THEN IF KeyRef \in DOMAIN options /\ ValueTruthy(options[KeyRef])
         THEN [input |-> input
                         \o (IF \E i \in 1..Len(input) : input[i] = "?"
                             THEN <<"&">> ELSE <<"?">>)
                         \o <<"r", "e", "f",
                              "=">> \o ValueStr(options[KeyRef]),
               options |-> DictPop(options, KeyRef)]
         ELSE [input |-> input, options |-> DictPop(options, KeyRef)]
    ELSE [input |-> input, options |-> options]

----------------------------------------------------------------------------
(* The sanitizer as a pure function: the inputs are every name of at most  *)
(* MaxNameLen characters over NameChars, and the traversal example.        *)

MaxNameLen == 4

NameChars == {"a", ".", "/", "\\"}

RECURSIVE SeqsUpTo(_, _)
SeqsUpTo(S, n) ==
    IF n = 0 THEN {<<>>}
    ELSE LET shorter == SeqsUpTo(S, n - 1)
         IN  shorter \cup {Append(s, c) : s \in shorter, c \in S}

TraversalName ==
    <<".", ".", "/", ".", ".", "/", "e", "t", "c", "/",
      "p", "a", "s", "s", "w", "d">>

SanInputs == SeqsUpTo(NameChars, MaxNameLen) \cup {TraversalName}

SanIdle ==
    /\ sanName = <<>>
    /\ sanOut = NotCalled

ExIdle ==
    /\ exData = [kind |-> "raw", id |-> 1, members |-> <<>>]
    /\ exCall = NotCalled
    /\ exRes = NotCalled

UpIdle ==
    /\ extra_unpack_handlers = <<>>
    /\ regLog = <<>>
    /\ upCall = NotCalled
    /\ upRes = NotCalled

\* the registry as the import of the package leaves it
ProcImported ==
    /\ processors = ImportedProcessors
    /\ default_processors = SnapshotDefaults(ImportedProcessors, Unset)
    /\ procOp = "import"
    /\ procPrev = ImportedProcessors

\* the store and the environment as the import finds them, att not called
AttIdle ==
    /\ config = DefaultConfig
    /\ environ = [n \in {} |-> ""]
    /\ attCall = NotCalled
    /\ attPairs = <<>>
    /\ attOut = <<>>
    /\ attLog = <<>>
    /\ attRes = NotCalled
    /\ attPc = "idle"

\* _process_single not called on its own
SingleIdle ==
    /\ singleCall = NotCalled
    /\ singleRes = NotCalled

\* no explode call is followed step by step
StepIdle ==
    /\ stepIn = NotCalled
    /\ stack = <<>>
    /\ stepRes = NotCalled

\* no download made; the limit is the default one
DlIdle ==
    /\ MAX_HTTP_DOWNLOAD_BYTES = DefaultMaxDownloadBytes
    /\ dlCall = NotCalled
    /\ resp = <<>>
    /\ total = 0
    /\ buf = <<>>
    /\ dlPc = "idle"
    /\ dlRes = NotCalled

SanInit ==
    /\ sanName \in SanInputs
    /\ sanOut = NotCalled
    /\ ExIdle
    /\ UpIdle
    /\ ProcImported
    /\ AttIdle
    /\ DlIdle
    /\ StepIdle
    /\ SingleIdle

Sanitize ==
    /\ sanOut = NotCalled
    /\ sanOut' = [called |-> TRUE, raised |-> FALSE,
                  value |-> SanitizeMemberName(sanName)]
    /\ UNCHANGED <<sanName, exVars, upVars, procVars, attVars,
                   dlVars, singleVars, stepVars>>

SanNext == Sanitize

SpecSanitize == SanInit /\ [][SanNext]_vars

----------------------------------------------------------------------------
(* Exploding and walking: the unpacked bytes are every blob whose archive  *)
(* members, counted over all nesting levels, number at most MaxNodes, with *)
(* member names drawn from MemberNames.                                    *)

MaxNodes == 2

OuterZip == <<"o", "u", "t", "e", "r", ".", "z", "i", "p">>
HelloTxt == <<"h", "e", "l", "l", "o", ".", "t", "x", "t">>
TableXlsx == <<"t", "a", "b", "l", "e", ".", "x", "l", "s", "x">>
UpperTgz == <<"A", ".", "T", "G", "Z">>
LockedTxt == <<"l", "o", "c", "k", "e", "d", ".", "t", "x", "t">>
SubName == <<"s", "u", "b">>
NoteTxt == <<"n", "o", "t", "e", ".", "t", "x", "t">>
PyCache == <<"_", "_", "p", "y", "c", "a", "c", "h", "e", "_", "_">>

\* the file names the unpacked bytes are stored under
ExFileNames == {OuterZip, TableXlsx, UpperTgz}

MemberNames ==
    { <<"a">>,                       \* a plain name
      <<".", ".">>,                  \* sanitizes to the empty name
      <<".", ".", "/", "a">>,        \* a traversal
      <<"b", ".", "z", "i", "p">>,   \* a raw-archive name
      <<"d", "/">> }                 \* a ZIP directory entry

Leaves == {Raw(1), BadZip}

RECURSIVE Blobs(_)
RECURSIVE MemberSeqs(_, _)

\* the names of TAR members: a plain name and a raw-archive name (both
\* formats hand their member names to the same sanitizer)
TarMemberNames == { <<"a">>, <<"b", ".", "z", "i", "p">> }

\* one member: a ZIP marks a directory by its name, a TAR by its type
MembersOf(kind, contents) ==
    IF kind = "zip"
    THEN {Member(n, "reg", d) : n \in MemberNames, d \in contents}
    ELSE {Member(n, "reg", d) : n \in TarMemberNames, d \in contents}
             \cup {Member(<<"d">>, "dir", Raw(1))}

MemberSeqs(kind, n) ==
    IF n = 0 THEN {<<>>}
    ELSE {<<>>} \cup
         UNION { { <<m>> \o rest : m \in MembersOf(kind, Blobs(k)),
                                   rest \in MemberSeqs(kind, n - 1 - k) }
                 : k \in 0..(n - 1) }

Blobs(n) ==
    Leaves \cup {Archive("zip", ms) : ms \in MemberSeqs("zip", n)}
           \cup {Archive("tar", ms) : ms \in MemberSeqs("tar", n)}

DirPath == <<"d">>
FilePath(fname) == DirPath \o <<"/">> \o fname

H1 == [id |-> "h1", raises |-> FALSE]
H2 == [id |-> "h2", raises |-> FALSE]
H3 == [id |-> "h3", raises |-> TRUE]

FsNode(kind, data, readable, tree) ==
    [kind |-> kind, data |-> data, readable |-> readable, tree |-> tree]

NoTree == Dir(<<>>, <<>>)

GitDir == Dir(<<File(<<"H", "E", "A", "D">>, Raw(1), TRUE)>>, <<>>)

\* sub/ holds note.txt and a __pycache__ directory
SubTree == Dir(<<File(NoteTxt, Raw(4), TRUE)>>, <<SubDir(PyCache, GitDir)>>)

\* a directory d/ holding hello.txt, locked.txt (which cannot be read), the
\* file fname, a .git directory and the directory sub/
ExTree(fname, data) ==
    Dir(<<File(HelloTxt, Raw(2), TRUE), File(LockedTxt, Raw(3), FALSE),
          File(fname, data, TRUE)>>,
        <<SubDir(<<".", "g", "i", "t">>, GitDir), SubDir(SubName, SubTree)>>)

ExWorld(fname, data) ==
    [fs |-> (DirPath :> FsNode("dir", Raw(1), TRUE, ExTree(fname, data)))
            @@ (FilePath(fname) :> FsNode("file", data, TRUE, NoTree)),
     git |-> [fails |-> TRUE, tree |-> NoTree],
     http |-> [fails |-> TRUE, cd_filename |-> <<>>, data |-> Raw(1)]]

\* https://h/outer.zip, answered with the bytes data
ExUrl == HttpsScheme \o <<"h", "/">> \o OuterZip

ExServer(data) == [fails |-> FALSE, cd_filename |-> <<>>, data |-> data]

ExRegistries == { <<>>, <<[k |-> DirPath, v |-> H1]>> }

ExCall(op, name, registry) ==
    [called |-> TRUE, op |-> op, name |-> name, registry |-> registry]

ExInit ==
    /\ exData \in Blobs(MaxNodes)
    /\ exCall = NotCalled
    /\ exRes = NotCalled
    /\ SanIdle
    /\ UpIdle
    /\ ProcImported
    /\ AttIdle
    /\ DlIdle
    /\ StepIdle
    /\ SingleIdle

\* _explode_archive_bytes(container_name, data), called directly
ExplodeCall ==
    /\ exCall = NotCalled
    /\ \E name \in {<<>>, OuterZip} :
          /\ exCall' = ExCall("explode", name, <<>>)
          /\ exRes' = Traced(ExplodeArchiveBytes(name, exData), <<>>)
    /\ UNCHANGED <<exData, sanVars, upVars, procVars, attVars,
                   dlVars, singleVars, stepVars>>

\* unpack("d"): d is a directory that holds a file with the bytes exData
UnpackDirCall ==
    /\ exCall = NotCalled
    /\ \E fname \in ExFileNames :
       \E reg \in (IF fname = OuterZip THEN ExRegistries ELSE {<<>>}) :
          /\ exCall' = ExCall("unpack_dir", fname, reg)
          /\ exRes' = Unpack(DirPath, reg, <<>>, ExWorld(fname, exData))
    /\ UNCHANGED <<exData, sanVars, upVars, procVars, attVars,
                   dlVars, singleVars, stepVars>>

\* unpack("d/<fname>"): a regular file with the bytes exData
UnpackFileCall ==
    /\ exCall = NotCalled
    /\ \E fname \in {OuterZip, TableXlsx} :
          /\ exCall' = ExCall("unpack_file", fname, <<>>)
          /\ exRes' = Unpack(FilePath(fname), <<>>, <<>>,
                             ExWorld(fname, exData))
    /\ UNCHANGED <<exData, sanVars, upVars, procVars, attVars,
                   dlVars, singleVars, stepVars>>

\* unpack("https://h/outer.zip"): the server answers with the bytes exData
UnpackUrlCall ==
    /\ exCall = NotCalled
    /\ exCall' = ExCall("unpack_url", OuterZip, <<>>)
    /\ exRes' = Unpack(ExUrl, <<>>, <<>>,
                       [ExWorld(OuterZip, exData)
                            EXCEPT !.http = ExServer(exData)])
    /\ UNCHANGED <<exData, sanVars, upVars, procVars, attVars,
                   dlVars, singleVars, stepVars>>

ExNext == ExplodeCall \/ UnpackDirCall \/ UnpackFileCall \/ UnpackUrlCall

SpecExplode == ExInit /\ [][ExNext]_vars

----------------------------------------------------------------------------
(* The dispatcher with its registry: handlers are registered, then unpack  *)
(* is called on one of UpInputs with one of UpExtras in one of UpWorlds.   *)

MaxRegs == 2

PfxS3 == <<"s", "3", ":", "/", "/">>
PfxS == <<"s">>
PfxD == <<"d">>

UpPrefixes == {PfxS3, PfxS, HttpScheme, PfxD, GithubScheme}

InGithub == GithubScheme \o <<"o", "/", "r">>
InGithubBad == GithubScheme \o <<"o">>
InGithubDash == GithubScheme \o <<"o", "-", "/", "r">>
InGithubDeep == GithubScheme \o <<"o", "/", "r", "/", "x">>
InGhRoot == GithubHttps \o <<"o", "/", "r">>
InGhRootRef == GithubHttps \o <<"o", "/", "r", "?", "r", "e", "f", "=", "x">>
InGhDeep == GithubHttps \o <<"o", "/", "r", "/", "x">>
InGhOwner == GithubHttps \o <<"o">>
InHttp == HttpScheme \o <<"h", "/", "f">>
InHttpsZip == HttpsScheme \o <<"h", "/", "g", ".", "z", "i", "p">>
InDir == <<"d">>
InFile == <<"f">>
InMissing == <<"n">>
InS3 == PfxS3 \o <<"b">>

UpInputs ==
    {InGithub, InGithubBad, InGithubDash, InGithubDeep, InGhRoot,
     InGhRootRef, InGhDeep,
     InGhOwner,
     InHttp, InHttpsZip, InDir, InFile, InMissing, InS3}

SmallZip == Archive("zip", <<Member(<<"a">>, "reg", Raw(1))>>)

SmallTree == Dir(<<File(HelloTxt, Raw(2), TRUE)>>, <<>>)

\* world 1: everything resolves, and the URL-like inputs also name
\* existing local paths; world 2: nothing exists and every fetch fails
UpWorld(w) ==
    IF w = 1
    THEN [fs |-> (InDir :> FsNode("dir", Raw(1), TRUE, SmallTree))
                 @@ (InFile :> FsNode("file", Raw(1), TRUE, NoTree))
                 @@ (InHttp :> FsNode("file", Raw(2), TRUE, NoTree))
                 @@ (InGithub :> FsNode("dir", Raw(1), TRUE, SmallTree))
                 @@ (InGhDeep :> FsNode("dir", Raw(1), TRUE, SmallTree))
                 @@ (InS3 :> FsNode("file", Raw(2), TRUE, NoTree)),
          git |-> [fails |-> FALSE, tree |-> SmallTree],
          http |-> [fails |-> FALSE, cd_filename |-> <<>>, data |-> SmallZip]]
    ELSE [fs |-> (InFile :> FsNode("other", Raw(1), TRUE, NoTree)),
          git |-> [fails |-> TRUE, tree |-> NoTree],
          http |-> [fails |-> TRUE, cd_filename |-> <<>>, data |-> Raw(1)]]

UpWorlds == {1, 2}

UpExtras ==
    { <<>>,
      <<[k |-> PfxS, v |-> H2]>>,
      <<[k |-> PfxD, v |-> H2], [k |-> PfxS3, v |-> H2]>> }

UpInit ==
    /\ extra_unpack_handlers = <<>>
    /\ regLog = <<>>
    /\ upCall = NotCalled
    /\ upRes = NotCalled
    /\ SanIdle
    /\ ExIdle
    /\ ProcImported
    /\ AttIdle
    /\ DlIdle
    /\ StepIdle
    /\ SingleIdle

\* register_unpack_handler(prefix, handler), directly or as a decorator
RegisterUnpackHandler ==
    /\ upCall = NotCalled
    /\ Len(regLog) < MaxRegs
    /\ \E prefix \in UpPrefixes, h \in {H1, H3} :
          /\ extra_unpack_handlers' =
                 DictSet(extra_unpack_handlers, prefix, h)
          /\ regLog' = Append(regLog, [k |-> prefix, v |-> h])
    /\ UNCHANGED <<upCall, upRes, sanVars, exVars, procVars, attVars,
                   dlVars, singleVars, stepVars>>

\* @source(p1, p2): one handler registered under each prefix, in order
SourceDecorator ==
    /\ upCall = NotCalled
    /\ Len(regLog) + 2 <= MaxRegs
    /\ \E p1 \in UpPrefixes, p2 \in UpPrefixes, h \in {H1, H3} :
          /\ extra_unpack_handlers' =
                 DictSet(DictSet(extra_unpack_handlers, p1, h), p2, h)
          /\ regLog' = regLog \o <<[k |-> p1, v |-> h], [k |-> p2, v |-> h]>>
    /\ UNCHANGED <<upCall, upRes, sanVars, exVars, procVars, attVars,
                   dlVars, singleVars, stepVars>>

\* unpack(input, extra_handlers)
UnpackCall ==
    /\ upCall = NotCalled
    /\ \E input \in UpInputs, extra \in UpExtras, w \in UpWorlds :
          /\ upCall' = [called |-> TRUE, input |-> input, extra |-> extra,
                        world |-> w]
          /\ upRes' = Unpack(input, extra_unpack_handlers, extra, UpWorld(w))
          /\ extra_unpack_handlers' =
                 RegistryAfterUnpack(extra_unpack_handlers, extra)
    /\ UNCHANGED <<regLog, sanVars, exVars, procVars, attVars,
                   dlVars, singleVars, stepVars>>

UpNext == RegisterUnpackHandler \/ SourceDecorator \/ UnpackCall

SpecUnpack == UpInit /\ [][UpNext]_vars

----------------------------------------------------------------------------
(* The processor registry under registrations and resets.                  *)

ProcRawKeys ==
    { <<".", "p", "d", "f">>,                 \* a built-in key
      <<"P", "D", "F">>,                      \* the same key, unnormalized
      <<" ", ".", "F", "o", "o", " ">>,       \* a new key
      <<"b", "a", "r">>,                      \* another new key
      TextKey,                                \* the built-in sentinel
      <<"_", "_", "N", "e", "w">> }           \* a new sentinel

CustomFuncs == {"f1", "f2"}

\* the extension lists given to the processor decorator
DecoratorExts ==
    { << <<"P", "D", "F">>, <<" ", ".", "F", "o", "o", " ">> >>,
      << <<"b", "a", "r">>, <<"_", "_", "N", "e", "w">> >>,
      << TextKey, <<".", "p", "d", "f">> >> }

ProcInit ==
    /\ ProcImported
    /\ SanIdle
    /\ ExIdle
    /\ UpIdle
    /\ AttIdle
    /\ DlIdle
    /\ StepIdle
    /\ SingleIdle

\* register_processor(key, func), directly or as a decorator
RegisterProcessor ==
    /\ \E key \in ProcRawKeys, func \in CustomFuncs :
          processors' = RegistrySet(processors, key, func)
    /\ procOp' = "register"
    /\ procPrev' = processors
    /\ UNCHANGED <<default_processors, sanVars, exVars, upVars, attVars,
                   dlVars, singleVars, stepVars>>

\* @processor(ext1, ext2): one function under each extension, in order
ProcessorDecorator ==
    /\ \E exts \in DecoratorExts, func \in CustomFuncs :
          processors' = RegisterAll(processors, exts, func)
    /\ procOp' = "processor"
    /\ procPrev' = processors
    /\ UNCHANGED <<default_processors, sanVars, exVars, upVars, attVars,
                   dlVars, singleVars, stepVars>>

\* reset_processors()
ResetProcessors ==
    /\ processors' = ResetRegistry(processors, default_processors)
    /\ procOp' = "reset"
    /\ procPrev' = processors
    /\ UNCHANGED <<default_processors, sanVars, exVars, upVars, attVars,
                   dlVars, singleVars, stepVars>>

ProcNext == RegisterProcessor \/ ProcessorDecorator \/ ResetProcessors

SpecProc == ProcInit /\ [][ProcNext]_vars

----------------------------------------------------------------------------
(* att under configuration changes: the store is configured, a variable is *)
(* put in the environment or a processor is registered, then att is called *)
(* once on one of AttInputs in one of AttWorlds and runs file by file.     *)
(* Each file's local dependencies and remote answer are the environment's  *)
(* choice.                                                                 *)

AttTree ==
    Dir(<<File(HelloTxt, Raw(1), TRUE), File(TableXlsx, Raw(2), TRUE)>>,
        <<>>)

\* world 1: d is a directory of two files, f a binary file without an
\* extension, and the clone works; world 2: UpWorld(2), where nothing
\* resolves and every fetch fails
AttWorld(w) ==
    IF w = 1
    THEN [fs |-> (InDir :> FsNode("dir", Raw(1), TRUE, AttTree))
                 @@ (InFile :> FsNode("file", Raw(2), TRUE, NoTree)),
          git |-> [fails |-> FALSE, tree |-> SmallTree],
          http |-> [fails |-> FALSE, cd_filename |-> <<>>, data |-> Raw(1)]]
    ELSE UpWorld(2)

AttWorlds == {1, 2}

InDirRows == <<"d", " ", "[", "r", "o", "w", "s", ":", " ", "5", "]">>
InDirPrefer == <<"d", "[", "p", "r", "e", "f", "e", "r", ":", " ", "x", "]">>
InMissingPages ==
    <<"n", "[", "p", "a", "g", "e", "s", ":", " ", "1", "-", "2", "]">>
InGithubRef == InGithub \o <<"[", "r", "e", "f", ":", " ", "m", "]">>

AttInputs ==
    {InDir, InDirRows, InDirPrefer, InFile, InMissing, InMissingPages,
     InGithubRef, InS3}

\* the explicit keyword options of the call
AttKwargs == {EmptyDict, (KeyRef :> StrValue(<<"v">>))}

\* the call-site credential and mode; the other modes come from the
\* store (service-only) and from the environment (local-only)
AttApiKeys == {Unset, SetTo("k")}
AttPrefers == {Unset, SetTo("service")}

ConfigureArgs ==
    { [api_key |-> SetTo("")], [prefer |-> SetTo("service-only")] }

AttEnvirons == { [n \in {"ATTACHMENTS_PREFER"} |-> "local-only"] }

TxtKey == <<".", "t", "x", "t">>

\* what the service answers to one upload of filename
RemoteOutcomes(filename) ==
    { RemoteOk([text |-> <<"h", "i">>, images |-> <<>>, audio |-> <<>>,
                video |-> <<>>, flags |-> [kind |-> <<"t", "e", "x", "t">>]]),
      RemoteOk(ErrorArtifact(filename, MsgLocalFailed \o <<"x">>)),
      RemoteOk(EmptyDict),
      RemoteFails("ServiceError", <<"I", "n", "v", "a", "l", "i", "d", " ",
                                    "A", "P", "I", " ", "k", "e", "y">>),
      RemoteFails("ImportError", <<"S", "e", "r", "v", "i", "c", "e", " ",
                                   "m", "o", "d", "e", " ", "r", "e", "q",
                                   "u", "i", "r", "e", "s", " ", "h", "t",
                                   "t", "p", "x">>) }

\* what unpack_via_service does: the files of the response, or a failure
RemoteUnpacks ==
    { [kind |-> "ok", files |-> <<Entry(HelloTxt, Raw(1))>>,
       message |-> <<>>],
      [kind |-> "ServiceError", files |-> <<>>,
       message |-> <<"I", "n", "v", "a", "l", "i", "d", " ", "A", "P", "I",
                     " ", "k", "e", "y">>],
      [kind |-> "ImportError", files |-> <<>>,
       message |-> <<"S", "e", "r", "v", "i", "c", "e", " ", "m", "o", "d",
                     "e", " ", "r", "e", "q", "u", "i", "r", "e", "s", " ",
                     "h", "t", "t", "p", "x">>],
      [kind |-> "ValueError", files |-> <<>>, message |->
          <<"n", "o", "t", " ", "J", "S", "O", "N">>] }

\* unpack_via_service is not called
NoRemoteUnpack == [kind |-> "none", files |-> <<>>, message |-> <<>>]

MsgUnpackFailed ==
    <<"u", "n", "p", "a", "c", "k", " ", "f", "a", "i", "l", "e", "d", ":",
      " ">>
MsgService == <<";", " ", "s", "e", "r", "v", "i", "c", "e", ":", " ">>

\* the parameters of _process_single that a keyword option can collide with
ProcessSingleParams ==
    {<<"f", "i", "l", "e", "n", "a", "m",
       "e">>,
        <<"d", "a", "t", "a">>,
        <<"a", "p", "i", "_", "k", "e", "y">>,
        <<"p", "r", "e", "f", "e", "r">>}

\* a plausible slip: the mode is not consulted
ServiceUnpackWithAnyMode(key, mode) == Truthy(key)

\* the remote unpack is tried for a credential outside local-only mode
ServiceUnpackAllowed(key, mode) == Truthy(key) /\ mode # "local-only"

\* the try/except around unpack(input): the pairs to process, or the list
\* att returns at once
AttUnpack(input, up, key, mode, ru) ==
    IF ~up.raised THEN [returns |-> FALSE, pairs |-> up.out, out |-> <<>>]
    ELSE IF ServiceUnpackAllowed(key, mode)
    THEN IF ru.kind = "ok"
         THEN [returns |-> FALSE, pairs |-> ru.files, out |-> <<>>]
         ELSE IF ru.kind = "ServiceError"
         THEN [returns |-> TRUE, pairs |-> <<>>,
               out |-> <<ErrorArtifact(input,
                            MsgUnpackFailed \o ExcText(up) \o MsgService
                                \o ru.message)>>]
         ELSE IF ru.kind = "ImportError"
         THEN [returns |-> TRUE, pairs |-> <<>>,
               out |-> <<ErrorArtifact(input,
                            MsgUnpackFailed \o ExcText(up))>>]
         ELSE [returns |-> TRUE, pairs |-> <<>>,
               out |-> <<ErrorArtifact(input,
                            MsgUnpackFailed \o ExcText(up) \o MsgService
                                \o <<ru.kind>> \o <<":", " ">>
                                \o ru.message)>>]
    ELSE [returns |-> TRUE, pairs |-> <<>>,
          out |-> <<ErrorArtifact(input, MsgUnpackFailed \o ExcText(up))>>]

AttInit ==
    /\ AttIdle
    /\ DlIdle
    /\ StepIdle
    /\ SingleIdle
    /\ SanIdle
    /\ ExIdle
    /\ UpIdle
    /\ ProcImported

\* configure(**kwargs) with valid keys and values
Configure ==
    /\ attPc = "idle"
    /\ \E kwargs \in ConfigureArgs : config' = kwargs @@ config
    /\ UNCHANGED <<environ, attCall, attPairs, attOut, attLog, attRes, attPc,
                   sanVars, exVars, upVars, procVars,
                   dlVars, singleVars, stepVars>>

\* os.environ[name] = value before the call
Putenv ==
    /\ attPc = "idle"
    /\ \E env \in AttEnvirons : environ' = env @@ environ
    /\ UNCHANGED <<config, attCall, attPairs, attOut, attLog, attRes, attPc,
                   sanVars, exVars, upVars, procVars,
                   dlVars, singleVars, stepVars>>

\* register_processor(".txt", func) before the call
RegisterTxtProcessor ==
    /\ attPc = "idle"
    /\ \E func \in CustomFuncs :
          processors' = RegistrySet(processors, TxtKey, func)
    /\ procOp' = "register"
    /\ procPrev' = processors
    /\ UNCHANGED <<default_processors, attVars, sanVars, exVars, upVars,
                   dlVars, singleVars, stepVars>>

\* att(input, api_key=, prefer=, **options) up to the loop over the files
AttCall ==
    /\ attPc = "idle"
    /\ \E input \in AttInputs, api_key \in AttApiKeys, prefer \in AttPrefers,
          kwargs \in AttKwargs, w \in AttWorlds :
          LET parsed == ParseDsl(input)
              merged_options == DictMerge(parsed.options, kwargs)
              src == ApplySourceOptions(parsed.path, merged_options)
              up == Unpack(src.input, extra_unpack_handlers, <<>>,
                           AttWorld(w))
              key == GetApiKey(api_key, environ, config)
              mode == GetPrefer(prefer, environ, config).value
              asked == up.raised /\ ServiceUnpackAllowed(key, mode)
          IN  \E ru \in IF asked THEN RemoteUnpacks ELSE {NoRemoteUnpack} :
                LET res == AttUnpack(src.input, up, key, mode, ru)
                IN  /\ attCall' = [called |-> TRUE, input |-> input,
                                   api_key |-> api_key, prefer |-> prefer,
                                   kwargs |-> kwargs, world |-> w,
                                   unpacked |-> src.input,
                                   options |-> src.options, unpack |-> up,
                                   remote_unpack |-> ru.kind]
                    /\ attPairs' = res.pairs
                    /\ attPc' = IF res.returns THEN "done" ELSE "files"
                    /\ attRes' = IF res.returns THEN Returned(res.out)
                                 ELSE NotCalled
    /\ extra_unpack_handlers' =
           RegistryAfterUnpack(extra_unpack_handlers, <<>>)
    /\ UNCHANGED <<config, environ, attOut, attLog, regLog, upCall, upRes,
                   sanVars, exVars, procVars,
                   dlVars, singleVars, stepVars>>

\* one turn of the loop: _process_single on the next pair, then
\* _normalize_artifact and out.append; an exception leaves att
AttProcessFile ==
    /\ attPc = "files"
    /\ Len(attLog) < Len(attPairs)
    /\ LET pair == attPairs[Len(attLog) + 1]
       IN  \E deps \in BOOLEAN, remote \in RemoteOutcomes(pair.name) :
             LET collides ==
                     DOMAIN attCall.options \cap ProcessSingleParams # {}
                 r == IF collides
                      THEN Traced(RaisesWith("TypeError", <<>>), <<>>)
                      ELSE ProcessSingle(pair.name, pair.data,
                               attCall.api_key, attCall.prefer,
                               attCall.options, processors, environ,
                               config, deps, remote)
             IN  /\ attLog' = Append(attLog, r)
                 /\ IF r.raised
                    THEN /\ attOut' = attOut
                         /\ attRes' = RaisesWith(r.error, r.detail)
                         /\ attPc' = "done"
                    ELSE /\ attOut' = Append(attOut,
                                 NormalizeArtifact(r.out, pair.name))
                         /\ attRes' = attRes
                         /\ attPc' = attPc
    /\ UNCHANGED <<config, environ, attCall, attPairs,
                   sanVars, exVars, upVars, procVars,
                   dlVars, singleVars, stepVars>>

\* return out
AttReturn ==
    /\ attPc = "files"
    /\ Len(attLog) = Len(attPairs)
    /\ attRes' = Returned(attOut)
    /\ attPc' = "done"
    /\ UNCHANGED <<config, environ, attCall, attPairs, attOut, attLog,
                   sanVars, exVars, upVars, procVars,
                   dlVars, singleVars, stepVars>>

AttNext ==
    \/ Configure
    \/ Putenv
    \/ RegisterTxtProcessor
    \/ AttCall
    \/ AttProcessFile
    \/ AttReturn

SpecAtt == AttInit /\ [][AttNext]_vars

----------------------------------------------------------------------------
(* _process_single on its own: the store, the environment and the registry *)
(* are what configure(), the shell and register_processor() left, and the  *)
(* call is made once for one file; whether the local libraries work and    *)
(* what the service answers is the environment's choice.                   *)

DocPdf == <<"d", "o", "c", ".", "p", "d", "f">>

UpperTxt == <<"N", ".", "T", "X", "T">>

\* a text file, a spreadsheet, a PDF, a binary file without extension, a
\* binary file with an upper-case extension and a text file without
\* extension
SingleFiles ==
    { Entry(HelloTxt, Raw(1)), Entry(TableXlsx, Raw(2)),
      Entry(DocPdf, Raw(2)), Entry(InFile, Raw(2)),
      Entry(UpperTxt, Raw(2)), Entry(InFile, Raw(1)) }

SingleConfigs ==
    { [api_key |-> a, prefer |-> SetTo(p)] :
        a \in {Unset, SetTo("c")},
        p \in {"local", "service", "local-only", "service-only"} }

SingleEnvirons ==
    { [n \in {} |-> ""],
      [n \in {"ATTACHMENTS_PREFER"} |-> "service"],
      [n \in {"ATTACHMENTS_API_KEY"} |-> "e"] }

\* the registry as imported, or with .txt given to f2 or f3
SingleRegistries ==
    { ImportedProcessors,
      RegistrySet(ImportedProcessors, TxtKey, "f2"),
      RegistrySet(ImportedProcessors, TxtKey, "f3") }

SingleApiKeys == {Unset, SetTo("k"), SetTo("")}
SinglePrefers == {Unset, SetTo("local-only")}

SingleInit ==
    /\ config \in SingleConfigs
    /\ environ \in SingleEnvirons
    /\ processors \in SingleRegistries
    /\ default_processors = SnapshotDefaults(ImportedProcessors, Unset)
    /\ procOp = "import"
    /\ procPrev = ImportedProcessors
    /\ attCall = NotCalled
    /\ attPairs = <<>>
    /\ attOut = <<>>
    /\ attLog = <<>>
    /\ attRes = NotCalled
    /\ attPc = "idle"
    /\ SingleIdle
    /\ SanIdle
    /\ ExIdle
    /\ UpIdle
    /\ DlIdle
    /\ StepIdle

\* _process_single(filename, data, api_key=, prefer=)
ProcessSingleCall ==
    /\ singleCall = NotCalled
    /\ \E file \in SingleFiles, api_key \in SingleApiKeys,
          prefer \in SinglePrefers, deps \in BOOLEAN :
       \E remote \in RemoteOutcomes(file.name) :
          /\ singleCall' = [called |-> TRUE, filename |-> file.name,
                            data |-> file.data, api_key |-> api_key,
                            prefer |-> prefer, deps |-> deps,
                            remote |-> remote]
          /\ singleRes' = ProcessSingle(file.name, file.data, api_key,
                              prefer, EmptyDict, processors, environ,
                              config, deps, remote)
    /\ UNCHANGED <<sanVars, exVars, upVars, procVars, attVars, dlVars, stepVars>>

SingleNext == ProcessSingleCall

SpecSingle == SingleInit /\ [][SingleNext]_vars

----------------------------------------------------------------------------
(* One call of unpack, of att or of _process_single, made with the two     *)
(* global registries as the import left them or as registrations made      *)
(* before the call left them.                                              *)

CallRegistries == { <<>>, <<[k |-> PfxS, v |-> H1]>> }

CallsInit ==
    /\ extra_unpack_handlers \in CallRegistries
    /\ regLog = extra_unpack_handlers
    /\ upCall = NotCalled
    /\ upRes = NotCalled
    /\ processors \in SingleRegistries
    /\ default_processors = SnapshotDefaults(ImportedProcessors, Unset)
    /\ procOp = "import"
    /\ procPrev = ImportedProcessors
    /\ AttIdle
    /\ SingleIdle
    /\ SanIdle
    /\ ExIdle
    /\ DlIdle
    /\ StepIdle

NoCallYet ==
    /\ upCall = NotCalled
    /\ attPc = "idle"
    /\ singleCall = NotCalled

CallsNext ==
    \/ NoCallYet /\ UnpackCall
    \/ NoCallYet /\ AttCall
    \/ AttProcessFile
    \/ AttReturn
    \/ NoCallYet /\ ProcessSingleCall

SpecCalls == CallsInit /\ [][CallsNext]_vars

----------------------------------------------------------------------------
(* unpack of an http(s) URL, one step of the download loop at a time.  The *)
(* limit is the default or what the environment sets (0..MaxLimit); the    *)
(* server sends a body of at most MaxBody bytes, and a read delivers       *)
(* between one and ChunkSize of the bytes that are left.                   *)

MaxLimit == 2
MaxBody == 3
ChunkSize == 2

BodyBytes == {"P", "K"}

DlBodies == UNION {[1..n -> BodyBytes] : n \in 0..MaxBody}

DlUrls == {InHttp, InHttpsZip}

\* the Content-Disposition file name: none, or one with a traversal
DlDispositions == {<<>>, <<".", ".", "/", "x">>}

DlLimits == {Unset} \cup {SetTo(n) : n \in 0..MaxLimit}

DlWorld(cd_filename) ==
    [http |-> [fails |-> FALSE, cd_filename |-> cd_filename, data |-> Raw(1)]]

DlInit ==
    /\ \E env_value \in DlLimits :
          MAX_HTTP_DOWNLOAD_BYTES = MaxDownloadBytesAtImport(env_value)
    /\ dlCall = NotCalled
    /\ resp = <<>>
    /\ total = 0
    /\ buf = <<>>
    /\ dlPc = "idle"
    /\ dlRes = NotCalled
    /\ SanIdle
    /\ ExIdle
    /\ UpIdle
    /\ ProcImported
    /\ AttIdle
    /\ SingleIdle
    /\ StepIdle

\* urlopen(req, timeout=60): the request fails, or a response is open
Urlopen ==
    /\ dlPc = "idle"
    /\ \E url \in DlUrls, cd \in DlDispositions, body \in DlBodies :
       \E fails \in (IF body = <<>> THEN BOOLEAN ELSE {FALSE}) :
          /\ dlCall' = [called |-> TRUE, url |-> url, cd_filename |-> cd,
                        body |-> body]
          /\ IF fails
             THEN /\ dlRes' = RaisesWith("URLError", url)
                  /\ dlPc' = "done"
                  /\ resp' = <<>>
             ELSE /\ dlRes' = dlRes
                  /\ dlPc' = "reading"
                  /\ resp' = body
    /\ total' = 0
    /\ buf' = <<>>
    /\ UNCHANGED <<MAX_HTTP_DOWNLOAD_BYTES, sanVars, exVars, upVars,
                   procVars, attVars, singleVars, stepVars>>

\* one turn of the while loop with a chunk that is not empty
ReadChunk ==
    /\ dlPc = "reading"
    /\ resp # <<>>
    /\ \E n \in 1..ChunkSize :
          /\ n <= Len(resp)
          /\ LET chunk == SubSeq(resp, 1, n)
             IN  /\ resp' = SubSeq(resp, n + 1, Len(resp))
                 /\ total' = total + Len(chunk)
                 /\ IF LimitExceeded(total, chunk, MAX_HTTP_DOWNLOAD_BYTES)
                    THEN /\ dlRes' = RaisesWith("ValueError", dlCall.url)
                         /\ dlPc' = "done"
                         /\ buf' = buf
                    ELSE /\ buf' = buf \o chunk
                         /\ dlPc' = dlPc
                         /\ dlRes' = dlRes
    /\ UNCHANGED <<MAX_HTTP_DOWNLOAD_BYTES, dlCall, sanVars, exVars, upVars,
                   procVars, attVars, singleVars, stepVars>>

\* resp.read raises: the connection breaks or times out
ReadFails ==
    /\ dlPc = "reading"
    /\ dlRes' = RaisesWith("OSError", dlCall.url)
    /\ dlPc' = "done"
    /\ UNCHANGED <<MAX_HTTP_DOWNLOAD_BYTES, dlCall, resp, total, buf,
                   sanVars, exVars, upVars, procVars, attVars, singleVars,
                   stepVars>>

\* the empty chunk: break, return (filename, buf.getvalue()), and unpack
\* explodes the bytes when the name is a raw-archive name
ReadEnd ==
    /\ dlPc = "reading"
    /\ resp = <<>>
    /\ LET name == DownloadName(dlCall.url, DlWorld(dlCall.cd_filename))
           data == Bytes(buf)
       IN  dlRes' = IF IsRawArchiveName(name)
                    THEN ExplodeArchiveBytes(name, data)
                    ELSE Returned(<<Entry(name, data)>>)
    /\ dlPc' = "done"
    /\ UNCHANGED <<MAX_HTTP_DOWNLOAD_BYTES, dlCall, resp, total, buf,
                   sanVars, exVars, upVars, procVars, attVars, singleVars,
                   stepVars>>

DlNext == Urlopen \/ ReadChunk \/ ReadFails \/ ReadEnd

SpecFetch == DlInit /\ [][DlNext]_vars

----------------------------------------------------------------------------
(* _explode_archive_bytes followed call by call.  Each call of the         *)
(* function is a frame on the stack, holding its arguments, its locals     *)
(* (i: the member the for loop has reached; inner_name, inner and          *)
(* virtual_name once they are assigned; out) and pc: "enter" before the    *)
(* signature tests, "loop" at the head of the for loop, "member" when the  *)
(* member is read, "return" at the return statement.                       *)
(* The interpreter raises RecursionError for a call that would make the    *)
(* stack deeper than its recursion limit.                                  *)

StepNodes == 1
MaxDepth == 3
RecursionLimit == 5

BZip == <<"b", ".", "z", "i", "p">>

RECURSIVE Chain(_)

\* archives nested d deep: each holds the member a and the next archive
Chain(d) ==
    IF d = 0 THEN Raw(1)
    ELSE Archive(IF d % 2 = 1 THEN "zip" ELSE "tar",
                 <<Member(<<"a">>, "reg", Raw(1)),
                   Member(BZip, "reg", Chain(d - 1))>>)

\* a ZIP whose one member, r.zip, holds the bytes of the ZIP itself
SelfContaining == [kind |-> "zip", id |-> 1, members |-> <<>>]

StepBlobs ==
    Blobs(StepNodes) \cup {Chain(d) : d \in 0..MaxDepth}
                     \cup {SelfContaining}

\* zf.infolist() / tf.getmembers() with the bytes of each member
MembersIn(data) ==
    IF data = SelfContaining
    THEN <<Member(<<"r", ".", "z", "i", "p">>, "reg", data)>>
    ELSE data.members

Frame(container_name, data) ==
    [container_name |-> container_name, data |-> data, pc |-> "enter",
     i |-> 1, inner_name |-> <<>>, inner |-> Raw(1), virtual_name |-> <<>>,
     out |-> <<>>]

Top == stack[Len(stack)]

SetTop(frame) == [stack EXCEPT ![Len(stack)] = frame]

\* the frame is at the head of its loop, with a member left
AtMember ==
    /\ stack # <<>>
    /\ Top.pc = "loop"
    /\ Top.i <= Len(MembersIn(Top.data))

CurrentMember == MembersIn(Top.data)[Top.i]

\* the frame has read a member
MemberRead == stack # <<>> /\ Top.pc = "member"

\* the test that hands the member to a recursive call
IsNestedArchive(inner_name, inner) ==
    IsRawArchiveName(inner_name) /\ (IsZipBytes(inner) \/ IsTarBytes(inner))

\* a plausible slip: the recursive call is handed the container's bytes
RecursionBytesOfContainer(data, inner) == data

\* the bytes the recursive call is made on: inner, read from the member
RecursionBytes(data, inner) == inner

StepInit ==
    /\ stepIn \in {[called |-> TRUE, container_name |-> n, data |-> d] :
                     n \in {<<>>, OuterZip}, d \in StepBlobs}
    /\ stack = <<>>
    /\ stepRes = NotCalled
    /\ SanIdle
    /\ ExIdle
    /\ UpIdle
    /\ ProcImported
    /\ AttIdle
    /\ SingleIdle
    /\ DlIdle

\* _explode_archive_bytes(container_name, data) is called
StepCall ==
    /\ stack = <<>>
    /\ stepRes = NotCalled
    /\ stack' = <<Frame(stepIn.container_name, stepIn.data)>>
    /\ UNCHANGED <<stepIn, stepRes, sanVars, exVars, upVars, procVars,
                   attVars, dlVars, singleVars>>

\* the bytes pass a signature test and the archive opens
OpenArchive ==
    /\ stack # <<>>
    /\ Top.pc = "enter"
    /\ Top.data.kind \in {"zip", "tar"}
    /\ stack' = SetTop([Top EXCEPT !.pc = "loop"])
    /\ UNCHANGED <<stepIn, stepRes, sanVars, exVars, upVars, procVars,
                   attVars, dlVars, singleVars>>

\* the bytes have the ZIP signature and zipfile.ZipFile raises: no frame
\* catches the exception
OpenFails ==
    /\ stack # <<>>
    /\ Top.pc = "enter"
    /\ Top.data.kind = "badzip"
    /\ stack' = <<>>
    /\ stepRes' = Raises("BadZipFile")
    /\ UNCHANGED <<stepIn, sanVars, exVars, upVars, procVars, attVars,
                   dlVars, singleVars>>

\* neither ZIP nor TAR: out.append((container_name or "blob", data))
EmitBlob ==
    /\ stack # <<>>
    /\ Top.pc = "enter"
    /\ ~IsZipBytes(Top.data)
    /\ ~IsTarBytes(Top.data)
    /\ stack' = SetTop([Top EXCEPT
           !.out = <<Entry(IF Top.container_name # <<>>
                           THEN Top.container_name
                           ELSE <<"b", "l", "o", "b">>, Top.data)>>,
           !.pc = "return"])
    /\ UNCHANGED <<stepIn, stepRes, sanVars, exVars, upVars, procVars,
                   attVars, dlVars, singleVars>>

\* if zi.is_dir(): continue / if not ti.isreg(): continue
SkipMember ==
    /\ AtMember
    /\ MemberSkipped(Top.data.kind, CurrentMember)
    /\ stack' = SetTop([Top EXCEPT !.i = @ + 1])
    /\ UNCHANGED <<stepIn, stepRes, sanVars, exVars, upVars, procVars,
                   attVars, dlVars, singleVars>>

\* inner_name = _sanitize_member_name(...); inner = fp.read();
\* virtual_name = f"{container_name}/{inner_name}"
ReadMember ==
    /\ AtMember
    /\ ~MemberSkipped(Top.data.kind, CurrentMember)
    /\ stack' = SetTop([Top EXCEPT
           !.inner_name = SanitizeMemberName(CurrentMember.name),
           !.inner = CurrentMember.data,
           !.virtual_name =
               VirtualName(Top.container_name,
                           SanitizeMemberName(CurrentMember.name)),
           !.pc = "member"])
    /\ UNCHANGED <<stepIn, stepRes, sanVars, exVars, upVars, procVars,
                   attVars, dlVars, singleVars>>

\* out.append((virtual_name, inner))
EmitMember ==
    /\ MemberRead
    /\ ~IsNestedArchive(Top.inner_name, Top.inner)
    /\ stack' = SetTop([Top EXCEPT
           !.out = Append(@, Entry(Top.virtual_name, Top.inner)),
           !.i = @ + 1,
           !.pc = "loop"])
    /\ UNCHANGED <<stepIn, stepRes, sanVars, exVars, upVars, procVars,
                   attVars, dlVars, singleVars>>

\* _explode_archive_bytes(virtual_name, inner) is called from the loop
Recurse ==
    /\ MemberRead
    /\ IsNestedArchive(Top.inner_name, Top.inner)
    /\ Len(stack) < RecursionLimit
    /\ stack' = Append(stack,
           Frame(Top.virtual_name, RecursionBytes(Top.data, Top.inner)))
    /\ UNCHANGED <<stepIn, stepRes, sanVars, exVars, upVars, procVars,
                   attVars, dlVars, singleVars>>

\* the same call with the stack at the recursion limit: RecursionError
RecursionOverflow ==
    /\ MemberRead
    /\ IsNestedArchive(Top.inner_name, Top.inner)
    /\ Len(stack) >= RecursionLimit
    /\ stack' = <<>>
    /\ stepRes' = Raises("RecursionError")
    /\ UNCHANGED <<stepIn, sanVars, exVars, upVars, procVars, attVars,
                   dlVars, singleVars>>

\* the loop has no member left: return out
LoopEnds ==
    /\ stack # <<>>
    /\ Top.pc = "loop"
    /\ Top.i > Len(MembersIn(Top.data))
    /\ stack' = SetTop([Top EXCEPT !.pc = "return"])
    /\ UNCHANGED <<stepIn, stepRes, sanVars, exVars, upVars, procVars,
                   attVars, dlVars, singleVars>>

\* return out: to the caller's out.extend(...), or out of the first call
ReturnOut ==
    /\ stack # <<>>
    /\ Top.pc = "return"
    /\ IF Len(stack) = 1
       THEN /\ stack' = <<>>
            /\ stepRes' = Returned(Top.out)
       ELSE /\ stack' =
                   LET caller == stack[Len(stack) - 1]
                   IN  Append(SubSeq(stack, 1, Len(stack) - 2),
                              [caller EXCEPT !.out = @ \o Top.out,
                                             !.i = @ + 1,
                                             !.pc = "loop"])
            /\ UNCHANGED stepRes
    /\ UNCHANGED <<stepIn, sanVars, exVars, upVars, procVars, attVars,
                   dlVars, singleVars>>

StepNext ==
    \/ StepCall
    \/ OpenArchive
    \/ OpenFails
    \/ EmitBlob
    \/ SkipMember
    \/ ReadMember
    \/ EmitMember
    \/ Recurse
    \/ RecursionOverflow
    \/ LoopEnds
    \/ ReturnOut

\* the interpreter runs the call to its end: a step that can be taken is
\* taken
SpecSteps == StepInit /\ [][StepNext]_vars /\ WF_vars(StepNext)

----------------------------------------------------------------------------
(* C9.  The segments of a name, read off its characters by position: a     *)
(* segment starts at 1 or right after a separator and runs to the next     *)
(* separator or the end; both "/" and "\" separate.                        *)

IsSep(c) == c = "/" \/ c = "\\"

SegStarts(n) == {i \in 1..(Len(n) + 1) : i = 1 \/ IsSep(n[i - 1])}

SegEnd(n, i) ==
    LET stops == {j \in i..Len(n) : IsSep(n[j])}
    IN  IF stops = {} THEN Len(n)
        ELSE (CHOOSE j \in stops : \A k \in stops : j <= k) - 1

SegAt(n, i) == SubSeq(n, i, SegEnd(n, i))

KeptStarts(n) == {i \in SegStarts(n) : SegAt(n, i) \notin DroppedSegments}

RECURSIVE InOrder(_, _)
InOrder(n, starts) ==
    IF starts = {} THEN <<>>
    ELSE LET i == CHOOSE x \in starts : \A y \in starts : x <= y
         IN  <<SegAt(n, i)>> \o InOrder(n, starts \ {i})

KeptSegments(n) == InOrder(n, KeptStarts(n))

EtcPasswd == <<"e", "t", "c", "/", "p", "a", "s", "s", "w", "d">>

\* C9: for every raw name the sanitizer returns, without raising, the
\* segments of the name (backslashes read as "/") that are not "", "." or
\* "..", in order and joined by "/"; the result never starts with "/" and
\* has no ".." segment, and "../../etc/passwd" gives "etc/passwd".
C9_SanitizerDropsTraversal ==
    sanOut.called =>
        /\ ~sanOut.raised
        /\ sanOut.value = Join(KeptSegments(sanName), <<"/">>)
        /\ ~StartsWith(sanOut.value, <<"/">>)
        /\ \A i \in 1..Len(Split(sanOut.value, "/")) :
               Split(sanOut.value, "/")[i] # <<".", ".">>
        /\ (sanName = TraversalName => sanOut.value = EtcPasswd)

\* a name with a traversal segment and a backslash has been sanitized
C9_Witness ==
    /\ sanOut.called
    /\ sanName = <<".", ".", "\\", "a">>
    /\ sanOut.value = <<"a">>

----------------------------------------------------------------------------
(* C8 and C10: the names and bytes of the entries an archive explodes to.  *)

SafeVirtualName(n) ==
    /\ ~StartsWith(n, <<"/">>)
    /\ \A i \in 1..Len(Split(n, "/")) :
           Split(n, "/")[i] \notin {<<>>, <<".">>, <<".", ".">>}

IsArchive(data) == data.kind \in {"zip", "tar"}

RegularMember(kind, m) ==
    IF kind = "zip" THEN m.name[Len(m.name)] # "/" ELSE m.type = "reg"

\* the member is itself exploded: a raw-archive name and archive bytes
ExpandedMember(m) ==
    /\ IsRawArchiveName(SanitizeMemberName(m.name))
    /\ m.data.kind \in {"zip", "tar", "badzip"}

HasEntry(out, n, d) == \E i \in 1..Len(out) : out[i] = Entry(n, d)

\* C8: every entry that explode emits for a ZIP or TAR archive has a
\* virtual_name that does not start with "/" and has no component that is
\* empty, "." or "..".
C8_VirtualNamesAreSafe ==
    (/\ exCall.called
     /\ exCall.op = "explode"
     /\ exCall.name = OuterZip
     /\ IsArchive(exData)
     /\ ~exRes.raised)
        => \A i \in 1..Len(exRes.out) : SafeVirtualName(exRes.out[i].name)

UnpackedDirByWalker ==
    /\ exCall.called
    /\ exCall.op = "unpack_dir"
    /\ exCall.name = OuterZip
    /\ ~exRes.raised
    /\ exData.kind = "zip"
    /\ \A i \in 1..Len(exRes.trace) : exRes.trace[i].ev # "handler"

\* C10 as stated: unpacking a directory that holds outer.zip yields, for
\* each regular member at path p with bytes b, an entry named "outer.zip/"
\* followed by p, with the bytes b.  (A member whose name sanitizes to
\* nothing is C8's case and is left out here.)
C10_EntryNamedByRawPath ==
    (UnpackedDirByWalker /\ exCall.registry = <<>>)
        => \A i \in 1..Len(exData.members) :
              LET m == exData.members[i]
              IN  (/\ RegularMember("zip", m)
                   /\ ~ExpandedMember(m)
                   /\ SanitizeMemberName(m.name) # <<>>)
                     => HasEntry(exRes.out, OuterZip \o <<"/">> \o m.name,
                                 m.data)

\* C10 as amended: when the built-in directory walker resolves the
\* directory and unpack returns, each regular member of outer.zip at path p
\* with bytes b that is not itself exploded yields an entry named
\* "outer.zip/" followed by the sanitized p, with the bytes b; a regular
\* member r with bytes c of an archive nested at q yields the entry
\* "outer.zip/" sanitized q "/" sanitized r, with the bytes c.
C10_EntryNamedBySanitizedPath ==
    UnpackedDirByWalker
        => \A i \in 1..Len(exData.members) :
              LET m == exData.members[i]
                  q == OuterZip \o <<"/">> \o SanitizeMemberName(m.name)
              IN  RegularMember("zip", m) =>
                    IF ~ExpandedMember(m)
                    THEN HasEntry(exRes.out, q, m.data)
                    ELSE \A j \in 1..Len(m.data.members) :
                           LET r == m.data.members[j]
                           IN  (RegularMember(m.data.kind, r)
                                /\ ~ExpandedMember(r))
                                  => HasEntry(exRes.out,
                                        q \o <<"/">>
                                          \o SanitizeMemberName(r.name),
                                        r.data)

\* outer.zip holds b.zip, which holds ../a: the entry is outer.zip/b.zip/a
C10_Witness ==
    /\ UnpackedDirByWalker
    /\ exData = Archive("zip",
          <<Member(<<"b", ".", "z", "i", "p">>, "reg",
                   Archive("zip",
                      <<Member(<<".", ".", "/", "a">>, "reg", Raw(1))>>))>>)
    /\ HasEntry(exRes.out,
                OuterZip \o <<"/", "b", ".", "z", "i", "p", "/", "a">>,
                Raw(1))

----------------------------------------------------------------------------
(* C5 and C6: which resolver unpack runs.  The merged handler table is     *)
(* read off the history of registrations: a prefix stands where it was     *)
(* first registered and maps to the handler registered last, or to the     *)
(* call-time override; overrides under new prefixes follow, in their order.*)

LogIdx(k) == {i \in 1..Len(regLog) : regLog[i].k = k}
ExtraIdx(k) == {i \in 1..Len(upCall.extra) : upCall.extra[i].k = k}
MinOf(S) == CHOOSE x \in S : \A y \in S : x <= y
MaxOf(S) == CHOOSE x \in S : \A y \in S : x >= y

TableKeys ==
    {regLog[i].k : i \in 1..Len(regLog)}
        \cup {upCall.extra[i].k : i \in 1..Len(upCall.extra)}

TableRank(k) ==
    IF LogIdx(k) # {} THEN MinOf(LogIdx(k))
    ELSE Len(regLog) + MinOf(ExtraIdx(k))

TableValue(k) ==
    IF ExtraIdx(k) # {} THEN upCall.extra[MaxOf(ExtraIdx(k))].v
    ELSE regLog[MaxOf(LogIdx(k))].v

MatchingKeys == {k \in TableKeys : StartsWith(upCall.input, k)}

FirstMatchingKey ==
    CHOOSE k \in MatchingKeys :
        \A k2 \in MatchingKeys : TableRank(k) <= TableRank(k2)

\* C6: when a prefix of the merged handler table starts the input, unpack
\* calls exactly one handler, the first match in table order, once, with
\* the original input, and returns (or raises) what the handler does; no
\* built-in resolver runs and the filesystem is not consulted.
C6_FirstMatchingHandlerOnly ==
    (upCall.called /\ MatchingKeys # {}) =>
        LET h == TableValue(FirstMatchingKey)
        IN  /\ upRes.trace = <<Event("handler", h.id, upCall.input)>>
            /\ upRes.raised = h.raises
            /\ ~h.raises => upRes.out = <<Entry(<<h.id>>, Raw(1))>>

\* "s" was registered before "s3://" and is overridden at call time: the
\* override runs for s3://b, though s3://b also names an existing file
C6_Witness ==
    /\ upCall.called
    /\ regLog = <<[k |-> PfxS, v |-> H1], [k |-> PfxS3, v |-> H1]>>
    /\ upCall.extra = <<[k |-> PfxS, v |-> H2]>>
    /\ upCall.input = InS3
    /\ upCall.world = 1
    /\ upRes.trace = <<Event("handler", "h2", InS3)>>

\* the number of non-empty "/"-separated segments of s
SegmentCount(s) ==
    Cardinality({i \in 1..Len(s) : s[i] # "/" /\ (i = 1 \/ s[i - 1] = "/")})

GithubUrlPath(input) ==
    LET rest == SubSeq(input, Len(GithubHttps) + 1, Len(input))
    IN  SubSeq(rest, 1, FirstOf(rest, {"?", "#"}) - 1)

IsGithubClass(input) ==
    \/ StartsWith(input, GithubScheme)
    \/ (StartsWith(input, GithubHttps)
        /\ SegmentCount(GithubUrlPath(input)) = 2)

IsHttpClass(input) ==
    StartsWith(input, HttpScheme) \/ StartsWith(input, HttpsScheme)

FsKind(input, w) ==
    IF input \in DOMAIN UpWorld(w).fs THEN UpWorld(w).fs[input].kind
    ELSE "absent"

ExpectedResolver(input, w) ==
    IF IsGithubClass(input) THEN "github"
    ELSE IF IsHttpClass(input) THEN "http"
    ELSE IF FsKind(input, w) = "dir" THEN "dir"
    ELSE IF FsKind(input, w) = "file" THEN "file"
    ELSE "none"

ResolverEvents(trace) == SelectSeq(trace, LAMBDA e : e.ev = "resolver")
FsEvents(trace) == SelectSeq(trace, LAMBDA e : e.ev \in {"stat", "open"})

\* C5: when no custom prefix matches, unpack runs exactly one built-in
\* resolver, the first of GitHub repo root, http(s) URL, existing
\* directory, existing regular file that applies; the filesystem is
\* consulted only when no prefix test matched; an input of none of these
\* classes fails with an error that reports the input.
C5_OneBuiltinResolverInOrder ==
    (upCall.called /\ MatchingKeys = {}) =>
        LET want == ExpectedResolver(upCall.input, upCall.world)
        IN  /\ want # "none" =>
                 ResolverEvents(upRes.trace)
                     = <<Event("resolver", want, upCall.input)>>
            /\ want = "none" =>
                 /\ ResolverEvents(upRes.trace) = <<>>
                 /\ upRes.raised
                 /\ upRes.error = "ValueError"
                 /\ upRes.detail = upCall.input
            /\ FsEvents(upRes.trace) # <<>> =>
                 ~IsGithubClass(upCall.input) /\ ~IsHttpClass(upCall.input)

\* https://github.com/o/r/x has three segments and names an existing
\* directory: it is downloaded, and the filesystem is not consulted
C5_Witness ==
    /\ upCall.called
    /\ MatchingKeys = {}
    /\ upCall.input = InGhDeep
    /\ upCall.world = 1
    /\ ResolverEvents(upRes.trace) = <<Event("resolver", "http", InGhDeep)>>
    /\ FsEvents(upRes.trace) = <<>>

----------------------------------------------------------------------------
(* C7: reset_processors restores the built-in registry.                    *)

BuiltinKeys ==
    {TextKey, XlsxKey, PdfKey}
        \cup {TextExtensions[i] : i \in 1..Len(TextExtensions)}

BuiltinFunc(k) ==
    IF k = XlsxKey THEN "xlsx_processor"
    ELSE IF k = PdfKey THEN "process_pdf"
    ELSE "text_processor"

IsBuiltinRegistry(r) ==
    /\ DOMAIN r = BuiltinKeys
    /\ \A k \in BuiltinKeys : r[k] = BuiltinFunc(k)

\* C7: after any registrations and earlier resets, reset_processors leaves
\* the registry equal to the built-in snapshot taken at import (the same
\* keys, each with its built-in function), and no registration ever
\* changes that snapshot.
C7_ResetRestoresBuiltins ==
    /\ default_processors.set
    /\ IsBuiltinRegistry(default_processors.value)
    /\ procOp = "reset" => IsBuiltinRegistry(processors)

\* a reset that found a new key and an overridden built-in key
C7_Witness ==
    /\ procOp = "reset"
    /\ <<".", "f", "o", "o">> \in DOMAIN procPrev
    /\ procPrev[PdfKey] = "f1"
    /\ IsBuiltinRegistry(processors)

----------------------------------------------------------------------------
(* C1-C4.  att as seen by its caller: the call has finished when attPc is  *)
(* "done"; it unpacked the input when unpack returned or the remote unpack *)
(* answered with files.                                                    *)

AttFinished == attPc = "done"

AttUnpacked ==
    /\ attCall.called
    /\ ~attCall.unpack.raised \/ attCall.remote_unpack = "ok"

ArtifactKeys == {"text", "images", "audio", "video", "flags"}

\* C1: att never raises and every unpacked file ends in exactly one
\* artifact: whenever att has finished it has returned a list, and when the
\* input was unpacked the list holds as many artifacts as there are pairs,
\* whatever the mode, the credential and the local and remote outcomes.
C1_AttNeverRaises ==
    AttFinished =>
        /\ ~attRes.raised
        /\ AttUnpacked => Len(attRes.out) = Len(attPairs)

\* C2: every artifact of the returned list has the keys text, images,
\* audio, video and flags, and the flags.source of a file's artifact is the
\* virtual name of that file, whatever the processor's result contained.
C2_ArtifactsCarryKeysAndSource ==
    (AttFinished /\ ~attRes.raised) =>
        \A i \in 1..Len(attRes.out) :
            /\ ArtifactKeys \subseteq DOMAIN attRes.out[i]
            /\ "source" \in DOMAIN attRes.out[i]["flags"]
            /\ AttUnpacked =>
                   attRes.out[i]["flags"]["source"] = attPairs[i].name

\* the artifacts _process_single and _normalize_artifact can make of one
\* pair alone, over every local and remote outcome
ArtifactsOf(pair) ==
    { NormalizeArtifact(r.out, pair.name) :
        r \in { q \in { ProcessSingle(pair.name, pair.data, attCall.api_key,
                            attCall.prefer, attCall.options, processors,
                            environ, config, deps, remote) :
                        deps \in BOOLEAN,
                        remote \in RemoteOutcomes(pair.name) } :
                ~q.raised } }

\* C3: when unpack succeeds with n pairs att returns exactly n artifacts,
\* the i-th being the artifact of the i-th pair alone; a failure on one
\* file neither prevents nor changes the artifacts of the others.
C3_OneArtifactPerPairInOrder ==
    (AttFinished /\ AttUnpacked) =>
        /\ ~attRes.raised
        /\ Len(attRes.out) = Len(attPairs)
        /\ \A i \in 1..Len(attPairs) :
               attRes.out[i] \in ArtifactsOf(attPairs[i])

\* the local unpack failed and no remote unpack that the mode and the
\* credential permit answered with files
UnpackFailedForGood ==
    /\ attCall.called
    /\ attCall.unpack.raised
    /\ ~(/\ Truthy(GetApiKey(attCall.api_key, environ, config))
         /\ GetPrefer(attCall.prefer, environ, config).value # "local-only"
         /\ attCall.remote_unpack = "ok")

\* att returned one error artifact and processed no file
OneErrorArtifact ==
    /\ AttFinished
    /\ ~attRes.raised
    /\ Len(attRes.out) = 1
    /\ attRes.out[1].text = <<>>
    /\ attRes.out[1].images = <<>>
    /\ attRes.out[1].audio = <<>>
    /\ attRes.out[1].video = <<>>
    /\ DOMAIN attRes.out[1].flags = {"source", "error"}
    /\ StartsWith(attRes.out[1].flags.error,
                  MsgUnpackFailed \o ExcText(attCall.unpack))
    /\ attLog = <<>>
    /\ attOut = <<>>

\* the input is handed to unpack as it is: no blank around it, no option
\* suffix, and no ref option for a GitHub source
PlainInput(input, kwargs) ==
    /\ Strip(input) = input
    /\ ~EndsWith(input, <<"]">>)
    /\ ~StartsWith(input, GithubScheme) \/ KeyRef \notin DOMAIN kwargs
    /\ ~StartsWith(input, GithubHttps) \/ KeyRef \notin DOMAIN kwargs

\* C4 (as claimed): when unpacking fails and no remote unpack succeeds, att
\* returns exactly one error artifact whose flags.error carries the failure
\* description and whose flags.source is the raw input string, and no
\* per-file artifact is produced.
C4_ErrorKeyedByRawInput ==
    UnpackFailedForGood =>
        /\ OneErrorArtifact
        /\ attRes.out[1].flags.source = attCall.input

\* C4 (amended): when unpacking fails and no remote unpack succeeds, att
\* returns exactly one error artifact whose flags.error carries the failure
\* description and whose flags.source is the string unpack was called with
\* (the input without its surrounding blanks and its option suffix, with
\* the ref appended for a GitHub source), which is the raw input when the
\* input is plain; no per-file artifact is produced.
C4_ErrorKeyedByUnpackedInput ==
    UnpackFailedForGood =>
        /\ OneErrorArtifact
        /\ attCall.unpack.trace # <<>>
        /\ attRes.out[1].flags.source = attCall.unpack.trace[1].arg
        /\ PlainInput(attCall.input, attCall.kwargs) =>
               attRes.out[1].flags.source = attCall.input

\* att("n[pages: 1-2]") with a credential, the remote unpack failing with
\* a service error: the one error artifact is keyed by "n"
C4_Witness ==
    /\ UnpackFailedForGood
    /\ AttFinished
    /\ attCall.input = InMissingPages
    /\ attCall.remote_unpack = "ServiceError"
    /\ Len(attRes.out) = 1
    /\ attRes.out[1].flags.source = InMissing

----------------------------------------------------------------------------
(* C11: which files are expanded.  The suffix test is read off the name's  *)
(* last characters, letter case set aside.                                 *)

HasRawArchiveSuffix(n) ==
    \E suf \in RawArchiveSuffixes :
        /\ Len(n) >= Len(suf)
        /\ \A i \in 1..Len(suf) :
               LowerChar(n[Len(n) - Len(suf) + i]) = suf[i]

\* the entry is to be replaced by its members
ToExpand(n, data) ==
    HasRawArchiveSuffix(n) /\ data.kind \in {"zip", "tar", "badzip"}

\* the entries of out named n or under n/
EntriesUnder(out, n) ==
    SelectSeq(out, LAMBDA e : e.name = n \/ StartsWith(e.name, n \o <<"/">>))

\* each regular member of the archive stored as container is in out under
\* its own name, or is replaced there by its own members
MembersEmitted(out, container, data) ==
    \A i \in 1..Len(data.members) :
        LET m == data.members[i]
            q == container \o <<"/">> \o SanitizeMemberName(m.name)
        IN  RegularMember(data.kind, m) =>
              IF ToExpand(SanitizeMemberName(m.name), m.data)
              THEN /\ ~HasEntry(out, q, m.data)
                   /\ \A j \in 1..Len(m.data.members) :
                         LET r == m.data.members[j]
                             rn == SanitizeMemberName(r.name)
                         IN  (RegularMember(m.data.kind, r)
                              /\ ~ToExpand(rn, r.data))
                                => HasEntry(out, q \o <<"/">> \o rn, r.data)
              ELSE HasEntry(out, q, m.data)

UnpackedFileOrDir ==
    /\ exCall.called
    /\ exCall.op \in {"unpack_dir", "unpack_file"}
    /\ ~exRes.raised
    /\ \A i \in 1..Len(exRes.trace) : exRes.trace[i].ev # "handler"

\* C11: when unpack returns for a directory that holds a file, or for the
\* file itself, the file is replaced by its members iff its name ends,
\* letter case set aside, with a raw-archive suffix and its bytes are a ZIP
\* or TAR stream, and so is each of its members; every other file or member
\* (table.xlsx with ZIP bytes, a member "a" with ZIP bytes, outer.zip with
\* plain bytes) is emitted as one entry under its own name with its bytes.
C11_ExpandedIffArchiveNameAndBytes ==
    UnpackedFileOrDir =>
        IF ToExpand(exCall.name, exData)
        THEN /\ ~HasEntry(exRes.out, exCall.name, exData)
             /\ MembersEmitted(exRes.out, exCall.name, exData)
        ELSE EntriesUnder(exRes.out, exCall.name)
                 = <<Entry(exCall.name, exData)>>

\* d/table.xlsx holds a ZIP stream with one member: unpack returns the one
\* entry table.xlsx with these bytes
C11_Witness ==
    /\ UnpackedFileOrDir
    /\ exCall.op = "unpack_file"
    /\ exCall.name = TableXlsx
    /\ exData = Archive("zip", <<Member(<<"a">>, "reg", Raw(1))>>)
    /\ exRes.out = <<Entry(TableXlsx, exData)>>

\* d holds A.TGZ, a TAR stream with the member "a": the walker emits A.TGZ/a
C11_UpperCaseExpanded ==
    /\ UnpackedFileOrDir
    /\ exCall.op = "unpack_dir"
    /\ exCall.name = UpperTgz
    /\ exData = Archive("tar", <<Member(<<"a">>, "reg", Raw(1))>>)
    /\ HasEntry(exRes.out, UpperTgz \o <<"/", "a">>, Raw(1))

----------------------------------------------------------------------------
(* C12: the size guard of the download.                                    *)

\* the bytes received so far: the body less what is still unread
Received == Len(dlCall.body) - Len(resp)

\* C12: at every step of a download the buffer holds at most
\* MAX_HTTP_DOWNLOAD_BYTES bytes and the running count is the number of
\* bytes received; once the count is above the limit the download has
\* failed with the size-limit error and no entry; unpack returns an entry
\* only when the whole body was received and is at most the limit long, and
\* the entry then holds the body.
C12_DownloadWithinLimit ==
    dlCall.called =>
        /\ Len(buf) <= MAX_HTTP_DOWNLOAD_BYTES
        /\ (dlPc = "reading" \/ (dlRes.called /\ dlRes.error # "URLError"))
              => total = Received
        /\ total > MAX_HTTP_DOWNLOAD_BYTES
              => /\ dlPc = "done"
                 /\ dlRes.raised
                 /\ dlRes.error = "ValueError"
                 /\ dlRes.out = <<>>
        /\ (dlRes.called /\ ~dlRes.raised)
              => /\ total = Len(dlCall.body)
                 /\ total <= MAX_HTTP_DOWNLOAD_BYTES
                 /\ Len(dlRes.out) = 1
                 /\ dlRes.out[1].data = Bytes(dlCall.body)

\* the limit is 2, two bytes are buffered, and the third byte ends the
\* download with the size-limit error
C12_Witness ==
    /\ dlCall.called
    /\ MAX_HTTP_DOWNLOAD_BYTES = 2
    /\ Len(buf) = 2
    /\ total = 3
    /\ dlRes.called
    /\ dlRes.raised
    /\ dlRes.error = "ValueError"
    /\ dlRes.out = <<>>

----------------------------------------------------------------------------
(* C13 to C16: which processors _process_single calls in each mode.  The   *)
(* credential and the mode are the call-site value when one is given, else *)
(* what get_config finds.                                                  *)

SingleKey == GetApiKey(singleCall.api_key, environ, config)
SingleMode == GetPrefer(singleCall.prefer, environ, config).value
SingleProc ==
    RouteProcessor(singleCall.filename, singleCall.data, processors)

HasCredential == Truthy(SingleKey)

RemoteEvent == Event("remote", "service", singleCall.filename)
LocalEvent == Event("local", SingleProc, singleCall.filename)

IsErrorArtifact(a) ==
    /\ "flags" \in DOMAIN a
    /\ "error" \in DOMAIN a.flags
    /\ a.flags.error # <<>>
    /\ a.text = <<>>

\* C13: in service-only mode, a file processed with no credential yields
\* an error artifact and neither processor is called; with a credential
\* the remote processor is called, once, and the local processor is not,
\* whatever the service answers.
C13_ServiceOnlyCallsRemoteOnly ==
    (singleCall.called /\ SingleMode = "service-only") =>
        IF ~HasCredential
        THEN /\ ~singleRes.raised
             /\ IsErrorArtifact(singleRes.out)
             /\ singleRes.trace = <<>>
        ELSE singleRes.trace = <<RemoteEvent>>

\* hello.txt has a local processor, the credential is set and the service
\* rejects it: only the remote processor was called
C13_Witness ==
    /\ singleCall.called
    /\ SingleMode = "service-only"
    /\ HasCredential
    /\ singleCall.filename = HelloTxt
    /\ SingleProc = "text_processor"
    /\ singleCall.remote.kind = "ServiceError"
    /\ singleRes.trace = <<RemoteEvent>>
    /\ IsErrorArtifact(singleRes.out)

----------------------------------------------------------------------------
(* C14: local-only mode, over a whole att call.                            *)

AttMode == GetPrefer(attCall.prefer, environ, config).value

NoRemoteCall(trace) == \A j \in 1..Len(trace) : trace[j].ev # "remote"

CalledLocal(trace) == \E j \in 1..Len(trace) : trace[j].ev = "local"

\* C14: in an att call in local-only mode the remote unpack is not asked
\* for, not even after unpack failed, and no file is sent to the remote
\* processor; a file without a local processor yields the empty artifact
\* with the note "no local processor available", and a file whose
\* processor raises yields an error artifact.
C14_LocalOnlyNeverCallsRemote ==
    (attCall.called /\ AttMode = "local-only") =>
        /\ attCall.remote_unpack = "none"
        /\ \A i \in 1..Len(attLog) :
              LET pair == attPairs[i]
                  proc == RouteProcessor(pair.name, pair.data, processors)
                  r == attLog[i]
              IN  /\ NoRemoteCall(r.trace)
                  /\ (proc = "none" /\ r.error # "TypeError")
                        => /\ ~r.raised
                           /\ r.out = EmptyArtifact(pair.name,
                                                    MsgNoLocalProcessor)
                  /\ (proc = "f2" /\ CalledLocal(r.trace))
                        => /\ ~r.raised
                           /\ IsErrorArtifact(r.out)

\* att("f", api_key="k") with ATTACHMENTS_PREFER=local-only: f has no
\* processor, the credential is there, and the outcome is the empty
\* artifact without any call
C14_Witness ==
    /\ attCall.called
    /\ AttMode = "local-only"
    /\ attCall.input = InFile
    /\ attCall.api_key = SetTo("k")
    /\ Len(attLog) = 1
    /\ attLog[1].trace = <<>>
    /\ attLog[1].out = EmptyArtifact(InFile, MsgNoLocalProcessor)

\* att("n", api_key="k") in local-only mode: n does not exist, unpack
\* fails and the remote unpack is not asked for
C14_UnpackFailedWitness ==
    /\ attCall.called
    /\ AttMode = "local-only"
    /\ attCall.input = InMissing
    /\ attCall.api_key = SetTo("k")
    /\ attCall.unpack.raised
    /\ attCall.remote_unpack = "none"
    /\ attPc = "done"

\* hello.txt is given to f2, which raises: an error artifact
C14_RaisingProcessorWitness ==
    /\ attCall.called
    /\ AttMode = "local-only"
    /\ Len(attLog) >= 1
    /\ attLog[1].trace = <<Event("local", "f2", HelloTxt)>>
    /\ IsErrorArtifact(attLog[1].out)

----------------------------------------------------------------------------
(* C15: service mode.                                                      *)

\* the service answered with a dict that carries no error flag
RemoteSucceeded ==
    /\ singleCall.remote.kind = "ok"
    /\ DictGet(DictGet(singleCall.remote.result, "flags", EmptyDict),
               "error", <<>>) = <<>>

\* a is the service's answer, marked as coming from the service
IsRemoteResult(a) ==
    LET result == singleCall.remote.result
        flags == DictGet(result, "flags", EmptyDict)
    IN  /\ DOMAIN a = DOMAIN result \cup {"flags"}
        /\ \A k \in DOMAIN result \ {"flags"} : a[k] = result[k]
        /\ DOMAIN a.flags = DOMAIN flags \cup {"via"}
        /\ \A k \in DOMAIN flags \ {"via"} : a.flags[k] = flags[k]
        /\ a.flags.via = <<"s", "e", "r", "v", "i", "c", "e">>

SingleLocal ==
    CallProcessor(SingleProc, singleCall.data, singleCall.filename,
                  EmptyDict, singleCall.deps)

\* C15: in service mode with a credential the remote processor is the
\* first call made; when its answer carries no error flag that answer is
\* returned and the local processor is not called.  When the answer carries
\* an error flag, the remote call fails or raises, or there is no
\* credential, the local processor is called next and its artifact is
\* returned (an error artifact when it raises); without a registered
\* processor the empty artifact "no processor available" is returned.
C15_ServiceFirstThenLocal ==
    (singleCall.called /\ SingleMode = "service") =>
        /\ ~singleRes.raised
        /\ HasCredential => (singleRes.trace # <<>>
                             /\ singleRes.trace[1] = RemoteEvent)
        /\ IF HasCredential /\ RemoteSucceeded
           THEN /\ singleRes.trace = <<RemoteEvent>>
                /\ IsRemoteResult(singleRes.out)
           ELSE /\ singleRes.trace =
                      (IF HasCredential THEN <<RemoteEvent>> ELSE <<>>)
                          \o (IF SingleProc # "none" THEN <<LocalEvent>>
                              ELSE <<>>)
                /\ IF SingleProc = "none"
                   THEN singleRes.out = EmptyArtifact(singleCall.filename,
                                                      MsgNoProcessor)
                   ELSE IF SingleLocal.raised
                   THEN IsErrorArtifact(singleRes.out)
                   ELSE singleRes.out = SingleLocal.out

\* the service answers hello.txt with an error artifact: the text
\* processor is called after the remote one and its artifact is returned
C15_Witness ==
    /\ singleCall.called
    /\ SingleMode = "service"
    /\ HasCredential
    /\ singleCall.filename = HelloTxt
    /\ singleCall.remote.kind = "ok"
    /\ ~RemoteSucceeded
    /\ singleRes.trace = <<RemoteEvent, Event("local", "text_processor",
                                               HelloTxt)>>
    /\ singleRes.out.text = <<"h", "i">>

----------------------------------------------------------------------------
(* C16: local mode, for a file that has a local processor.                 *)

CalledRemote(trace) == \E j \in 1..Len(trace) : trace[j].ev = "remote"

LocalFirst ==
    /\ singleCall.called
    /\ SingleMode = "local"
    /\ SingleProc # "none"

\* the local artifact's error text holds a dependency indicator
DependencyMissing ==
    ~SingleLocal.raised /\ HasMeaningfulError(SingleLocal.out)

\* what the remote call leaves in local mode: the service's answer, or an
\* error artifact for what the call raised
IsRemoteOutcome(a) ==
    IF singleCall.remote.kind = "ok" THEN IsRemoteResult(a)
    ELSE IsErrorArtifact(a)

C16_HardErrorWitness ==
    /\ LocalFirst
    /\ HasCredential
    /\ SingleProc = "f3"
    /\ singleRes.trace = <<LocalEvent>>
    /\ singleRes.out = SingleLocal.out

----------------------------------------------------------------------------
(* C17: where a configuration value comes from, for the credential.        *)

\* the value by the stated priority: the call-site option, else the value
\* set with configure(), else the environment variable
ByStatedPriority(override, name, key) ==
    IF override.set THEN override
    ELSE IF key \in DOMAIN config /\ config[key].set THEN config[key]
    ELSE IF name \in DOMAIN environ THEN SetTo(environ[name])
    ELSE Unset

\* C17: the credential _process_single works with is the call-site
\* api_key when given, else the one set with configure(), else the one of
\* ATTACHMENTS_API_KEY: a credential set with configure() wins over the
\* environment variable.
C17_ConfigureWinsOverEnvironment ==
    singleCall.called =>
        SingleKey = ByStatedPriority(singleCall.api_key,
                                     "ATTACHMENTS_API_KEY", "api_key")

\* configure(api_key="c") with ATTACHMENTS_API_KEY=e and no call-site
\* credential: the credential used is "e"
C17_EnvironmentWins ==
    /\ singleCall.called
    /\ ~singleCall.api_key.set
    /\ config.api_key = SetTo("c")
    /\ "ATTACHMENTS_API_KEY" \in DOMAIN environ
    /\ environ["ATTACHMENTS_API_KEY"] = "e"
    /\ SingleKey = SetTo("e")

----------------------------------------------------------------------------
(* C18: what the directory walker returns for the directory d, which holds *)
(* hello.txt, locked.txt (not readable), one more file, .git/HEAD,         *)
(* sub/note.txt and sub/__pycache__/HEAD.                                  *)

WalkedDir ==
    /\ UnpackedFileOrDir
    /\ exCall.op = "unpack_dir"

SubNoteTxt == SubName \o <<"/">> \o NoteTxt

\* the entries that stand for the file stored under exCall.name
EntriesOfStoredFile ==
    IF HasRawArchiveSuffix(exCall.name)
    THEN ExplodeArchiveBytes(exCall.name, exData).out
    ELSE <<Entry(exCall.name, exData)>>

\* C18: when the walk of d returns, it returns exactly hello.txt, the
\* entries of the stored file (itself, or its exploded contents when it has
\* a raw-archive name) and sub/note.txt, each with its bytes: locked.txt,
\* which cannot be read, is left out without ending the walk or costing
\* another file its entry, and nothing under .git or sub/__pycache__ is
\* returned.
C18_WalkReturnsReadableUnprunedFiles ==
    WalkedDir =>
        exRes.out = <<Entry(HelloTxt, Raw(2))>>
                        \o EntriesOfStoredFile
                        \o <<Entry(SubNoteTxt, Raw(4))>>

\* d holds outer.zip with the member "a": the walk returns hello.txt,
\* outer.zip/a and sub/note.txt
C18_Witness ==
    /\ WalkedDir
    /\ exCall.name = OuterZip
    /\ exData = Archive("zip", <<Member(<<"a">>, "reg", Raw(1))>>)
    /\ exRes.out = <<Entry(HelloTxt, Raw(2)),
                     Entry(OuterZip \o <<"/", "a">>, Raw(1)),
                     Entry(SubNoteTxt, Raw(4))>>

----------------------------------------------------------------------------
(* C19: the built-in processors without their optional libraries.          *)

BuiltinWithoutLibraries ==
    /\ singleCall.called
    /\ SingleMode = "local"
    /\ HasCredential
    /\ SingleProc \in {"process_pdf", "xlsx_processor"}
    /\ ~singleCall.deps

\* C19: with a credential and the local mode, a file whose built-in
\* processor (pdf or xlsx) extracts nothing because its optional libraries
\* are not installed is sent to the service: the remote processor is
\* called for it.
C19_MissingLibrariesGoRemote ==
    BuiltinWithoutLibraries => CalledRemote(singleRes.trace)

\* doc.pdf without the PDF libraries, with a credential: the local artifact
\* (no text, a note, no error flag) is returned and the service is not
\* called
C19_PdfStaysLocal ==
    /\ BuiltinWithoutLibraries
    /\ singleCall.filename = DocPdf
    /\ singleRes.trace = <<LocalEvent>>
    /\ singleRes.out.text = <<>>
    /\ "error" \notin DOMAIN singleRes.out.flags

\* table.xlsx without pandas and openpyxl, with a credential: the service
\* is called
C19_XlsxGoesRemote ==
    /\ BuiltinWithoutLibraries
    /\ singleCall.filename = TableXlsx
    /\ singleRes.trace = <<LocalEvent, RemoteEvent>>

----------------------------------------------------------------------------
(* C20: the names in one unpack result.                                    *)

\* C20: the sequence one unpack call returns for a directory or an archive
\* has no two entries with the same virtual name, whatever the member
\* names of the archives are.
C20_VirtualNamesAreUnique ==
    UnpackedFileOrDir =>
        \A i, j \in 1..Len(exRes.out) :
            i # j => exRes.out[i].name # exRes.out[j].name

\* outer.zip holds the members "a" and "../a": unpack returns two entries
\* named outer.zip/a, with different bytes
C20_TwoEntriesOneName ==
    /\ UnpackedFileOrDir
    /\ exCall.op = "unpack_file"
    /\ exCall.name = OuterZip
    /\ exData = Archive("zip", <<Member(<<"a">>, "reg", Raw(1)),
                                 Member(<<".", ".", "/", "a">>, "reg",
                                        BadZip)>>)
    /\ exRes.out = <<Entry(OuterZip \o <<"/", "a">>, Raw(1)),
                     Entry(OuterZip \o <<"/", "a">>, BadZip)>>

----------------------------------------------------------------------------
(* C21: a corrupt archive met while exploding.  The bytes are parsed where *)
(* explode is called on them: the top-level bytes of an explode call, the  *)
(* bytes of a file or download with a raw-archive name, and the bytes of   *)
(* each regular member with a raw-archive name.                            *)

RECURSIVE MeetsCorruptArchive(_)

\* exploding data reaches bytes with the ZIP signature that do not parse
MeetsCorruptArchive(data) ==
    \/ data.kind = "badzip"
    \/ /\ data.kind \in {"zip", "tar"}
       /\ \E i \in 1..Len(data.members) :
             LET m == data.members[i]
             IN  /\ RegularMember(data.kind, m)
                 /\ HasRawArchiveSuffix(SanitizeMemberName(m.name))
                 /\ MeetsCorruptArchive(m.data)

\* the call handed exData to explode
ExplodedData ==
    /\ exCall.called
    /\ \A i \in 1..Len(exRes.trace) : exRes.trace[i].ev # "handler"
    /\ \/ exCall.op = "explode"
       \/ HasRawArchiveSuffix(exCall.name)

\* C21: when explode, or unpack of a file, of a download or of a directory
\* holding the file, explodes bytes in which a corrupt archive is met at
\* any nesting depth, the call raises the parser's error and returns no
\* entry: neither the members before the corrupt one nor the other files
\* of the directory.
C21_CorruptMemberFailsWholeCall ==
    (ExplodedData /\ MeetsCorruptArchive(exData))
        => /\ exRes.raised
           /\ exRes.error = "BadZipFile"
           /\ exRes.out = <<>>

\* d holds hello.txt and outer.zip; outer.zip holds a, then b.zip, whose
\* only member b.zip has the ZIP signature and does not parse
C21_Witness ==
    /\ ExplodedData
    /\ exCall.op = "unpack_dir"
    /\ exCall.name = OuterZip
    /\ exData = Archive("zip",
           <<Member(<<"b", ".", "z", "i", "p">>, "reg",
                    Archive("zip",
                        <<Member(<<"b", ".", "z", "i", "p">>, "reg",
                                 BadZip)>>))>>)
    /\ exRes.raised
    /\ exRes.out = <<>>

\* the download https://h/outer.zip is a TAR whose member b.zip is corrupt
C21_DownloadWitness ==
    /\ ExplodedData
    /\ exCall.op = "unpack_url"
    /\ exData = Archive("tar",
           <<Member(<<"a">>, "reg", Raw(1)),
             Member(<<"b", ".", "z", "i", "p">>, "reg", BadZip)>>)
    /\ exRes.raised
    /\ exRes.out = <<>>

----------------------------------------------------------------------------
(* C22: which owner/repo strings reach the clone command.                  *)

Separators == {"-", "_", "."}

\* the owner/repo string that parse(spec) hands to the validation
OwnerRepoOf(spec) ==
    IF StartsWith(spec, GithubScheme)
    THEN LET rest == SubSeq(spec, Len(GithubScheme) + 1, Len(spec))
         IN  StripSlashes(SubSeq(rest, 1, FirstOf(rest, {"?"}) - 1))
    ELSE LET parts == NonEmptyParts(UrlPath(spec))
         IN  IF Len(parts) = 2 THEN parts[1] \o <<"/">> \o parts[2]
             ELSE <<>>

\* the stated rule for one of owner and repo
WellFormedPart(part) ==
    /\ part # <<>>
    /\ \A i \in 1..Len(part) : part[i] \in OwnerRepoChars
    /\ part[1] \notin Separators
    /\ part[Len(part)] \notin Separators

\* the stated rule for the string owner/repo
WellFormedOwnerRepo(owner_repo) ==
    /\ Len(Split(owner_repo, "/")) = 2
    /\ \A i \in 1..2 : WellFormedPart(Split(owner_repo, "/")[i])
    /\ \A pat \in DangerousPatterns : ~Contains(owner_repo, pat)

GitInvoked == \E i \in 1..Len(upRes.trace) : upRes.trace[i].ev = "git"
TempDirMade == \E i \in 1..Len(upRes.trace) : upRes.trace[i].ev = "mkdtemp"

UnpackedGithub ==
    /\ upCall.called
    /\ \E i \in 1..Len(upRes.trace) :
           upRes.trace[i] = Event("resolver", "github", upCall.input)

\* C22: when unpack resolves an input as a GitHub repository, git is
\* invoked only for an owner/repo made of alphanumerics, hyphen, underscore
\* and dot whose owner and repo neither begin nor end with a separator and
\* that holds no dangerous substring; for every other owner/repo the call
\* raises ValueError with no temporary directory made and git not invoked.
C22_CloneOnlyForWellFormedOwnerRepo ==
    UnpackedGithub =>
        IF WellFormedOwnerRepo(OwnerRepoOf(upCall.input))
        THEN GitInvoked
        ELSE /\ upRes.raised
             /\ upRes.error = "ValueError"
             /\ ~TempDirMade
             /\ ~GitInvoked

\* github://o-/r: the owner ends with a hyphen, and the clone is run
C22_TrailingSeparatorCloned ==
    /\ UnpackedGithub
    /\ upCall.input = InGithubDash
    /\ ~WellFormedOwnerRepo(OwnerRepoOf(upCall.input))
    /\ TempDirMade
    /\ GitInvoked

----------------------------------------------------------------------------
(* C23: which GitHub inputs are cloned.  The segments of a path are its    *)
(* maximal runs of characters other than "/".                              *)

\* the path of a github:// input: what follows the scheme, up to the query
GithubSchemePath(input) ==
    LET rest == SubSeq(input, Len(GithubScheme) + 1, Len(input))
    IN  SubSeq(rest, 1, FirstOf(rest, {"?"}) - 1)

Fetched ==
    \E i \in 1..Len(upRes.trace) :
        upRes.trace[i] = Event("urlopen", "", upCall.input)

\* C23: when no custom prefix matches, an https://github.com/ URL whose
\* path has exactly two non-empty segments is handed to the GitHub
\* resolver and never fetched; with any other number of segments no
\* temporary directory is made, git is not invoked and the URL is fetched
\* as one HTTP resource; a github:// input whose path has not exactly two
\* segments raises ValueError, and nothing is cloned or fetched.
C23_CloneOnlyRepoRoot ==
    (upCall.called /\ MatchingKeys = {}) =>
        /\ StartsWith(upCall.input, GithubHttps) =>
             IF SegmentCount(GithubUrlPath(upCall.input)) = 2
             THEN UnpackedGithub /\ ~Fetched
             ELSE ~TempDirMade /\ ~GitInvoked /\ Fetched
        /\ (/\ StartsWith(upCall.input, GithubScheme)
            /\ SegmentCount(GithubSchemePath(upCall.input)) # 2) =>
             /\ upRes.raised
             /\ upRes.error = "ValueError"
             /\ ~TempDirMade /\ ~GitInvoked /\ ~Fetched
        /\ GitInvoked =>
             SegmentCount(IF StartsWith(upCall.input, GithubScheme)
                          THEN GithubSchemePath(upCall.input)
                          ELSE GithubUrlPath(upCall.input)) = 2

\* https://github.com/o/r/x is fetched and returned as the one entry x
C23_Witness ==
    /\ upCall.called
    /\ MatchingKeys = {}
    /\ upCall.input = InGhDeep
    /\ Fetched
    /\ ~GitInvoked
    /\ ~upRes.raised
    /\ Len(upRes.out) = 1

\* github://o/r/x is rejected before anything is cloned
C23_DeepSchemeRejected ==
    /\ upCall.called
    /\ MatchingKeys = {}
    /\ upCall.input = InGithubDeep
    /\ upRes.raised
    /\ upRes.error = "ValueError"
    /\ ~TempDirMade

\* https://github.com/o/r?ref=x is cloned
C23_RootWithRefCloned ==
    /\ upCall.called
    /\ MatchingKeys = {}
    /\ upCall.input = InGhRootRef
    /\ GitInvoked
    /\ ~upRes.raised

----------------------------------------------------------------------------
(* C24: the processor a file is routed to, read off the calls made.  The   *)
(* extension is matched on the characters of the file name.                *)

\* k is an extension key and the file name ends with it, case set aside
IsExtensionOf(k, filename) ==
    /\ Len(k) >= 2
    /\ k[1] = "."
    /\ \A i \in 2..Len(k) : k[i] \notin {".", "/"}
    /\ Len(filename) > Len(k)
    /\ \A i \in 1..Len(k) :
           LowerChar(filename[Len(filename) - Len(k) + i]) = k[i]
    /\ filename[Len(filename) - Len(k)] \notin {".", "/"}

RegisteredFor(filename) ==
    {k \in DOMAIN processors : IsExtensionOf(k, filename)}

\* the bytes pass the text heuristic (the printable bytes of the model)
LooksLikeText(data) == data = Raw(1)

ExpectedProcessor ==
    IF RegisteredFor(singleCall.filename) # {}
    THEN processors[CHOOSE k \in RegisteredFor(singleCall.filename) : TRUE]
    ELSE IF LooksLikeText(singleCall.data)
    THEN processors[TextKey]
    ELSE "none"

LocalCalls == SelectSeq(singleRes.trace, LAMBDA e : e.ev = "local")

\* C24: the local processor called for a file is the one registered for
\* the file's lower-cased extension when there is one, whatever the bytes
\* are; otherwise the catch-all text processor when the bytes pass the
\* text heuristic; otherwise none is called.  In local-only mode exactly
\* that processor is called, and without one the artifact is the empty
\* artifact "no local processor available".
C24_RoutedByExtensionThenText ==
    singleCall.called =>
        /\ \A i \in 1..Len(LocalCalls) :
               LocalCalls[i] = Event("local", ExpectedProcessor,
                                     singleCall.filename)
        /\ SingleMode = "local-only" =>
               IF ExpectedProcessor = "none"
               THEN /\ singleRes.trace = <<>>
                    /\ singleRes.out = EmptyArtifact(singleCall.filename,
                                                     MsgNoLocalProcessor)
               ELSE LocalCalls # <<>>

\* N.TXT holds binary bytes and .txt is registered to f3: f3 is called
C24_Witness ==
    /\ singleCall.called
    /\ SingleMode = "local-only"
    /\ singleCall.filename = UpperTxt
    /\ ~LooksLikeText(singleCall.data)
    /\ processors[TxtKey] = "f3"
    /\ singleRes.trace = <<Event("local", "f3", UpperTxt)>>

\* f has no extension and holds text: the catch-all text processor is
\* called
C24_CatchAllWitness ==
    /\ singleCall.called
    /\ SingleMode = "local-only"
    /\ singleCall.filename = InFile
    /\ LooksLikeText(singleCall.data)
    /\ singleRes.trace = <<Event("local", "text_processor", InFile)>>

\* f has no extension and holds binary bytes: no processor
C24_NoProcessorWitness ==
    /\ singleCall.called
    /\ SingleMode = "local-only"
    /\ singleCall.filename = InFile
    /\ ~LooksLikeText(singleCall.data)
    /\ singleRes.trace = <<>>
    /\ "note" \in DOMAIN singleRes.out.flags

----------------------------------------------------------------------------
(* C25: what is reported when the remote call fails for a file.            *)

ErrorFlagOf(a) == DictGet(DictGet(a, "flags", EmptyDict), "error", <<>>)

\* the remote processor was called and did not give a usable answer
RemoteFailed ==
    /\ singleCall.called
    /\ CalledRemote(singleRes.trace)
    /\ ~RemoteSucceeded

\* the reason the remote call gives for its failure
RemoteReason ==
    IF singleCall.remote.kind = "ok"
    THEN ErrorFlagOf(singleCall.remote.result)
    ELSE singleCall.remote.message

\* the routed processor raises, or its artifact carries an error flag
LocalFails ==
    /\ SingleProc # "none"
    /\ (SingleLocal.raised \/ ErrorFlagOf(SingleLocal.out) # <<>>)

LocalReason ==
    IF SingleLocal.raised THEN SingleLocal.detail
    ELSE ErrorFlagOf(SingleLocal.out)

\* C25: in the modes service and local, when the remote call fails for a
\* file that has a local processor, either the local processor's artifact
\* is returned, or, when local processing fails as well, the result is an
\* error artifact whose error text holds both the local and the remote
\* failure reason.
C25_BothReasonsReported ==
    (/\ RemoteFailed
     /\ SingleMode \in {"local", "service"}
     /\ SingleProc # "none")
        => IF LocalFails
           THEN /\ IsErrorArtifact(singleRes.out)
                /\ Contains(ErrorFlagOf(singleRes.out), LocalReason)
                /\ Contains(ErrorFlagOf(singleRes.out), RemoteReason)
           ELSE singleRes.out = SingleLocal.out

\* service mode, hello.txt routed to f2, which raises, after the service
\* refused the credential: the error text names the local failure only
C25_RemoteReasonLost ==
    /\ RemoteFailed
    /\ SingleMode = "service"
    /\ SingleProc = "f2"
    /\ singleCall.remote.kind = "ServiceError"
    /\ singleRes.trace = <<RemoteEvent, LocalEvent>>
    /\ IsErrorArtifact(singleRes.out)
    /\ Contains(ErrorFlagOf(singleRes.out), LocalReason)
    /\ ~Contains(ErrorFlagOf(singleRes.out), RemoteReason)

\* local mode, table.xlsx without its libraries, then the service refuses
\* the credential: the error text names the remote failure only
C25_LocalReasonLost ==
    /\ RemoteFailed
    /\ SingleMode = "local"
    /\ SingleProc = "xlsx_processor"
    /\ singleCall.remote.kind = "ServiceError"
    /\ singleRes.trace = <<LocalEvent, RemoteEvent>>
    /\ IsErrorArtifact(singleRes.out)
    /\ Contains(ErrorFlagOf(singleRes.out), RemoteReason)
    /\ ~Contains(ErrorFlagOf(singleRes.out), LocalReason)

\* service mode, the service refuses the credential and the local
\* processor succeeds: its artifact is returned
C25_FallbackSucceeds ==
    /\ RemoteFailed
    /\ SingleMode = "service"
    /\ SingleProc = "text_processor"
    /\ ~LocalFails
    /\ singleRes.out = SingleLocal.out

----------------------------------------------------------------------------
(* C26: a file the local side cannot handle, with no remote fallback.      *)

\* no processor is routed, or the routed built-in lacks its libraries
MissingLocalCapability ==
    \/ SingleProc = "none"
    \/ (SingleProc \in {"xlsx_processor", "process_pdf"}
        /\ ~singleCall.deps)

\* no credential, or a mode that never goes remote
NoRemoteFallback == ~HasCredential \/ SingleMode = "local-only"

IsEmptyArtifactWithNote(a) ==
    /\ DictGet(a, "text", <<>>) = <<>>
    /\ DictGet(a, "images", <<>>) = <<>>
    /\ DictGet(a, "audio", <<>>) = <<>>
    /\ DictGet(a, "video", <<>>) = <<>>
    /\ DictGet(DictGet(a, "flags", EmptyDict), "note", <<>>) # <<>>
    /\ ErrorFlagOf(a) = <<>>

\* C26: in the modes local, service and local-only, a file with a missing
\* local capability and no remote fallback yields an empty artifact that
\* carries a note and no error flag.
C26_MissingCapabilityGivesNote ==
    (/\ singleCall.called
     /\ SingleMode \in {"local", "service", "local-only"}
     /\ MissingLocalCapability
     /\ NoRemoteFallback
     /\ ~CalledRemote(singleRes.trace))
        => /\ ~singleRes.raised
           /\ IsEmptyArtifactWithNote(singleRes.out)

\* table.xlsx without pandas and openpyxl, no credential: the artifact
\* carries the error flag "xlsx processor requires ..." and no note
C26_XlsxGivesErrorFlag ==
    /\ singleCall.called
    /\ SingleMode = "local"
    /\ ~HasCredential
    /\ SingleProc = "xlsx_processor"
    /\ ~singleCall.deps
    /\ singleRes.out.flags.error = XlsxRequires
    /\ "note" \notin DOMAIN singleRes.out.flags

\* f holds binary bytes and has no extension, no credential: the empty
\* artifact "no processor available"
C26_NoProcessorGivesNote ==
    /\ singleCall.called
    /\ SingleMode = "service"
    /\ ~HasCredential
    /\ SingleProc = "none"
    /\ singleRes.out = EmptyArtifact(singleCall.filename, MsgNoProcessor)

----------------------------------------------------------------------------
(* C27: explode terminates.  The nesting depth of bytes is the number of   *)
(* archives on the longest chain archive, member that is exploded, member  *)
(* of that member, ...; it is finite for every blob but the self-          *)
(* containing ZIP.                                                         *)

RECURSIVE NestingDepth(_)

MaxOfDepths(S) == IF S = {} THEN 0 ELSE CHOOSE x \in S : \A y \in S : y <= x

NestingDepth(data) ==
    IF data.kind = "badzip" THEN 1
    ELSE IF data.kind \in {"zip", "tar"}
    THEN 1 + MaxOfDepths(
             { NestingDepth(data.members[i].data) :
                 i \in { k \in 1..Len(data.members) :
                           /\ RegularMember(data.kind, data.members[k])
                           /\ HasRawArchiveSuffix(
                                  SanitizeMemberName(data.members[k].name))
                           /\ data.members[k].data.kind # "raw" } })
    ELSE 0

StepDone == stepRes.called

\* each call above the first is made on the bytes of the member that the
\* calling frame has reached in its loop
CallsAreOnMemberBytes ==
    \A k \in 1..(Len(stack) - 1) :
        /\ stack[k].pc = "member"
        /\ stack[k].i <= Len(MembersIn(stack[k].data))
        /\ stack[k + 1].data = MembersIn(stack[k].data)[stack[k].i].data

\* the stack is never deeper than the nesting of the archives (one frame
\* for bytes that are no archive)
DepthWithinNesting ==
    stepIn.data # SelfContaining =>
        /\ Len(stack) <= MaxOfDepths({1, NestingDepth(stepIn.data)})
        /\ ~(stepRes.called /\ stepRes.raised
             /\ stepRes.error = "RecursionError")

\* bytes that are neither ZIP nor TAR: one entry with the input bytes,
\* named container_name, or "blob" when the name is empty
BaseCaseEmitsOneEntry ==
    (StepDone /\ stepIn.data.kind = "raw") =>
        /\ ~stepRes.raised
        /\ stepRes.out =
               <<Entry(IF stepIn.container_name = <<>>
                       THEN <<"b", "l", "o", "b">>
                       ELSE stepIn.container_name, stepIn.data)>>

C27_ThreeFramesDeep ==
    /\ stepIn.data = Chain(3)
    /\ Len(stack) = 3
    /\ Top.data = Chain(1)

\* plain bytes under the empty name: the one entry "blob"
C27_BlobWitness ==
    /\ StepDone
    /\ stepIn.container_name = <<>>
    /\ stepIn.data = Raw(1)
    /\ stepRes.out = <<Entry(<<"b", "l", "o", "b">>, Raw(1))>>

\* the self-containing ZIP: the call ends with RecursionError
C27_SelfContainingEnds ==
    /\ StepDone
    /\ stepIn.data = SelfContaining
    /\ stepRes.raised
    /\ stepRes.error = "RecursionError"

\* what the steps return is what the function returns in one piece
StepsAgreeWithExplode ==
    (StepDone /\ stepIn.data # SelfContaining) =>
        /\ stepRes.raised
               = ExplodeArchiveBytes(stepIn.container_name,
                                     stepIn.data).raised
        /\ stepRes.out
               = ExplodeArchiveBytes(stepIn.container_name, stepIn.data).out

----------------------------------------------------------------------------
(* C28: the two global registries under one call.                          *)

\* the keys of an insertion-ordered dict
KeysOf(d) == { d[i].k : i \in 1..Len(d) }

C28_AttWitness ==
    /\ attPc = "done"
    /\ attCall.called
    /\ ~attCall.unpack.raised
    /\ Len(attLog) >= 1
    /\ extra_unpack_handlers = <<[k |-> PfxS, v |-> H1]>>
    /\ processors = RegistrySet(ImportedProcessors, TxtKey, "f2")

\* _process_single has routed to the re-registered processor
C28_SingleWitness ==
    /\ singleCall.called
    /\ singleRes.called
    /\ \E i \in 1..Len(singleRes.trace) :
          singleRes.trace[i].ev = "local" /\ singleRes.trace[i].who = "f2"
    /\ processors = RegistrySet(ImportedProcessors, TxtKey, "f2")

----------------------------------------------------------------------------
(* C29: how often each side is called for one file.                        *)

\* the number of calls of one side in a trace
EventCount(trace, ev) ==
    Cardinality({ i \in 1..Len(trace) : trace[i].ev = ev })

\* C29: for one file, in every mode and for every credential, registry,
\* local outcome and remote outcome, _process_single calls the local
\* processor at most once and the remote processor at most once.
C29_EachSideAtMostOnce ==
    singleRes.called =>
        /\ EventCount(singleRes.trace, "local") <= 1
        /\ EventCount(singleRes.trace, "remote") <= 1

\* local mode, both sides fail: the local processor lacks its library, the
\* service is asked and fails, and the local processor is not tried again
C29_Witness ==
    /\ singleRes.called
    /\ SingleMode = "local"
    /\ HasCredential
    /\ SingleProc = "xlsx_processor"
    /\ ~singleCall.deps
    /\ singleCall.remote.kind = "ImportError"
    /\ singleRes.trace = <<LocalEvent, RemoteEvent>>

\* service mode, the service fails: one remote call, then one local call
C29_ServiceWitness ==
    /\ singleRes.called
    /\ SingleMode = "service"
    /\ singleCall.remote.kind = "ImportError"
    /\ singleRes.trace = <<RemoteEvent, LocalEvent>>

----------------------------------------------------------------------------
(* C30: the last statement of _process_single.                             *)

\* what _process_via_service gives for the file
SingleService == ProcessViaService(singleCall.filename, singleCall.remote)

ReturnsLocalResult ==
    ~SingleLocal.raised /\ singleRes.out = SingleLocal.out

ReturnsLocalFailed ==
    /\ SingleLocal.raised
    /\ singleRes.out = ErrorArtifact(singleCall.filename,
                           MsgLocalFailed \o ExcText(SingleLocal))

ReturnsRemoteResult ==
    ~SingleService.raised /\ singleRes.out = SingleService.out

ReturnsServiceFailed ==
    /\ SingleService.raised
    /\ singleRes.out = ErrorArtifact(singleCall.filename,
                           MsgServiceFailed \o ExcText(SingleService))

\* C30: in local mode the error artifact "processing failed" of the last
\* statement is never returned; with a local processor registered the call
\* returns the local result, the error artifact "local processing failed",
\* the remote result or the error artifact "service processing failed".
C30_FinalFallbackUnreachable ==
    (singleRes.called /\ SingleMode = "local") =>
        /\ ~singleRes.raised
        /\ singleRes.out
               # ErrorArtifact(singleCall.filename, MsgProcessingFailed)
        /\ ErrorFlagOf(singleRes.out) # MsgProcessingFailed
        /\ SingleProc # "none" =>
               \/ ReturnsLocalResult
               \/ ReturnsLocalFailed
               \/ ReturnsRemoteResult
               \/ ReturnsServiceFailed

\* the path that comes closest: the local processor raises and there is no
\* credential; the call returns "local processing failed"
C30_Witness ==
    /\ singleRes.called
    /\ SingleMode = "local"
    /\ SingleProc # "none"
    /\ SingleLocal.raised
    /\ ~HasCredential
    /\ ReturnsLocalFailed

\* the local processor raises and the service raises as well
C30_ServiceFailedWitness ==
    /\ singleRes.called
    /\ SingleMode = "local"
    /\ SingleProc # "none"
    /\ SingleLocal.raised
    /\ HasCredential
    /\ ReturnsServiceFailed

============================================================================
